---- MODULE Spec2Model ----
(***************************************************************************)
(* Online speaker identification coupled to streaming transcription.       *)
(*                                                                         *)
(*   - OnlineSpeakerClustering / LiveDiarizer   (live_diarize.py)          *)
(*   - CoreDiarizationEngine                    (core_diarization_engine.py)*)
(*   - StreamingTranscriber                     (stream_transcribe.py)     *)
(*                                                                         *)
(* Similarities, thresholds and confidences are integers in hundredths     *)
(* (0.85 is 85).  Embeddings are two-dimensional integer vectors of length *)
(* about 100; cosine similarity is computed from them as the code computes *)
(* it and truncated to hundredths.  Time is counted in hops of 0.5 s.      *)
(***************************************************************************)
EXTENDS Integers, Sequences, FiniteSets, TLC

VARIABLES
    engine,      \* who owns `clustering`: "live", "core" or "stream"
    pool,        \* the embeddings the extractor can return in this session
    clustering,  \* the clustering state (fields named as in the source)
    last,        \* what the last call returned and which branch it took
    transcriber, \* StreamingTranscriber fields
    diarizer,    \* LiveDiarizer fields (its clustering is `clustering`)
    returned,    \* the segments the last transcribe_chunk returned
    output,      \* JSON lines written to stdout, oldest first
    call,        \* inputs and path of the last transcribe_chunk
    audio_buffer, \* the transcriber's byte buffer (bytes numbered as received)
    loop         \* read_stdin_audio: its position and its local variables

engineVars == <<engine, pool, clustering, last>>
streamVars == <<transcriber, diarizer, returned, output, call>>
loopVars == <<audio_buffer, loop>>
vars == <<engine, pool, clustering, last,
          transcriber, diarizer, returned, output, call, audio_buffer, loop>>

(***************************************************************************)
(* Bounds of the model.                                                    *)
(***************************************************************************)
MaxSegments == 11         \* windows of a session with two distinct embeddings
MaxSegmentsThree == 8     \* windows of a session with three distinct embeddings
MaxCentroidHistory == 3   \* max_centroid_history (50 in the source)
MaxSpeakers == 2          \* max_speakers (2..5 in the core engine)

(***************************************************************************)
(* Program constants, in hundredths.                                       *)
(***************************************************************************)
REIDENTIFICATION_THRESHOLD == 85
MINIMUM_MATCH_THRESHOLD == 35
DEFINITE_NEW_SPEAKER_THRESHOLD == 30
NEW_SPEAKER_THRESHOLD == 40
CALIBRATION_SEGMENTS == 8
PROCESSED_AUDIO_MIN_SIMILARITY == 55
PROCESSED_AUDIO_THRESHOLD_BOOST == 25
EARLY_DETECTION_SEGMENTS == 10
MIN_PROFILE_EMBEDDINGS == 3
LIVE_SIMILARITY_THRESHOLD == 35
CORE_SIMILARITY_THRESHOLD == 30
STREAM_SIMILARITY_THRESHOLD == 30

None == -1
NoEmbedding == <<>>

(***************************************************************************)
(* Embeddings: unit vectors (times 100) at the angle given in the name.    *)
(***************************************************************************)
E0 == <<100, 0>>
E35 == <<82, 57>>
E50 == <<64, 77>>
E71 == <<33, 94>>
E75 == <<26, 97>>
E150 == <<-87, 50>>

PoolSame == {E0, E35}           \* one voice with its natural variation
PoolPair == {E0, E50}           \* two voices of a processed source
PoolNear == {E0, E71}           \* two voices just under the match threshold
PoolTwo == {E0, E75}            \* two clearly distinct voices
PoolDrift == {E0, E50, E75}     \* a drifting voice and a distinct one
PoolFar == {E0, E75, E150}      \* three clearly distinct voices
LivePools == {PoolSame, PoolPair, PoolNear, PoolDrift, PoolFar}
CorePools == {PoolTwo, PoolFar}

\* how many windows a session over the pool p runs for
SessionLimit(p) == IF Cardinality(p) <= 2 THEN MaxSegments ELSE MaxSegmentsThree

(***************************************************************************)
(* Vector arithmetic.                                                      *)
(***************************************************************************)
Dot(a, b) == a[1] * b[1] + a[2] * b[2]

Norm2(a) == Dot(a, a)

\* the integer square root by Newton's iteration from above
RECURSIVE IsqrtFrom(_, _, _)
IsqrtFrom(n, x, y) ==
    IF y >= x THEN x ELSE IsqrtFrom(n, y, (y + n \div y) \div 2)

\* 46341 is above the root of every 31-bit number
Isqrt(n) ==
    IF n = 0 THEN 0
    ELSE IsqrtFrom(n, 46341, (46341 + n \div 46341) \div 2)

\* _cosine_similarity: 0.0 when either norm is zero, else dot / (|a| |b|).
CosineSimilarity(a, b) ==
    IF Norm2(a) = 0 \/ Norm2(b) = 0 THEN 0
    ELSE (100 * Dot(a, b)) \div Isqrt(Norm2(a) * Norm2(b))

RECURSIVE Pow(_, _)
Pow(b, k) == IF k = 0 THEN 1 ELSE b * Pow(b, k - 1)

\* decay^(n-1-i) for the i-th (0-based) of n entries, decay = 0.9, scaled by
\* 10^(n-1) so that the weights are integers; normalisation divides by the sum.
Weight(n, i) == Pow(9, n - 1 - i) * Pow(10, i)

RECURSIVE WeightedSum(_, _, _)
WeightedSum(history, c, i) ==
    IF i > Len(history) THEN 0
    ELSE Weight(Len(history), i - 1) * history[i][c] + WeightedSum(history, c, i + 1)

RECURSIVE WeightSum(_, _)
WeightSum(n, i) == IF i >= n THEN 0 ELSE Weight(n, i) + WeightSum(n, i + 1)

WeightedCentroid(history) ==
    <<WeightedSum(history, 1, 1) \div WeightSum(Len(history), 0),
      WeightedSum(history, 2, 1) \div WeightSum(Len(history), 0)>>

\* the last k entries of a list: s[-k:]
LastK(s, k) == IF Len(s) <= k THEN s ELSE SubSeq(s, Len(s) - k + 1, Len(s))

RECURSIVE SeqMin(_)
SeqMin(s) ==
    IF Len(s) = 1 THEN s[1]
    ELSE LET m == SeqMin(Tail(s)) IN IF s[1] < m THEN s[1] ELSE m

(***************************************************************************)
(* The clustering state after construction.                                *)
(***************************************************************************)
NewClustering(similarity_threshold, max_speakers) ==
    [ similarity_threshold |-> similarity_threshold,
      max_speakers |-> max_speakers,
      speaker_centroids |-> <<>>,
      speaker_embedding_history |-> <<>>,
      speaker_counts |-> <<>>,
      speaker_profile_stable |-> <<>>,
      current_speaker |-> None,
      speaker_counter |-> 0,
      total_segments_processed |-> 0,
      first_speaker_initial_embedding |-> NoEmbedding,
      calibration_similarities |-> <<>>,
      is_calibrated |-> FALSE,
      is_processed_audio |-> FALSE,
      effective_similarity_threshold |-> similarity_threshold,
      effective_definite_new_threshold |-> DEFINITE_NEW_SPEAKER_THRESHOLD,
      effective_new_speaker_threshold |-> NEW_SPEAKER_THRESHOLD,
      effective_minimum_match_threshold |-> MINIMUM_MATCH_THRESHOLD ]

\* dict[key] = value
Put(d, k, v) == (k :> v) @@ d

(***************************************************************************)
(* OnlineSpeakerClustering (live_diarize.py).                              *)
(***************************************************************************)

\* The loop of _find_closest_speaker over the profiles in insertion order
\* (ids are inserted in increasing order); a later profile wins only with a
\* strictly greater similarity, and nothing wins with a similarity of 0.
RECURSIVE ClosestFrom(_, _, _, _)
ClosestFrom(cl, embedding, k, best) ==
    IF k >= cl.speaker_counter THEN best
    ELSE IF k \notin DOMAIN cl.speaker_centroids
         THEN ClosestFrom(cl, embedding, k + 1, best)
    ELSE LET similarity == CosineSimilarity(embedding, cl.speaker_centroids[k])
         IN IF similarity > best.similarity
            THEN ClosestFrom(cl, embedding, k + 1,
                             [speaker |-> k, similarity |-> similarity])
            ELSE ClosestFrom(cl, embedding, k + 1, best)

ClosestResult(best) ==
    [speaker |-> best.speaker, similarity |-> best.similarity,
     is_reidentification |-> best.similarity >= REIDENTIFICATION_THRESHOLD]

\* _find_closest_speaker(embedding)
FindClosestSpeaker(cl, embedding) ==
    ClosestResult(ClosestFrom(cl, embedding, 0,
                              [speaker |-> None, similarity |-> 0]))

\* the calibration that forgets to close itself when the audio is found
\* to be live
CalibrateThresholdsLiveNotClosed(cl, similarity) ==
    IF cl.is_calibrated THEN cl
    ELSE LET sims == Append(cl.calibration_similarities, similarity)
         IN IF Len(sims) < CALIBRATION_SEGMENTS
            THEN [cl EXCEPT !.calibration_similarities = sims]
            ELSE IF SeqMin(sims) >= PROCESSED_AUDIO_MIN_SIMILARITY
            THEN [cl EXCEPT !.calibration_similarities = sims,
                            !.is_processed_audio = TRUE,
                            !.effective_similarity_threshold =
                                cl.similarity_threshold + PROCESSED_AUDIO_THRESHOLD_BOOST,
                            !.effective_definite_new_threshold =
                                DEFINITE_NEW_SPEAKER_THRESHOLD + PROCESSED_AUDIO_THRESHOLD_BOOST,
                            !.effective_new_speaker_threshold =
                                NEW_SPEAKER_THRESHOLD + PROCESSED_AUDIO_THRESHOLD_BOOST,
                            !.effective_minimum_match_threshold =
                                MINIMUM_MATCH_THRESHOLD + PROCESSED_AUDIO_THRESHOLD_BOOST,
                            !.is_calibrated = TRUE]
            ELSE [cl EXCEPT !.calibration_similarities = sims]

\* _calibrate_thresholds(similarity)
CalibrateThresholds(cl, similarity) ==
    IF cl.is_calibrated THEN cl
    ELSE LET sims == Append(cl.calibration_similarities, similarity)
         IN IF Len(sims) < CALIBRATION_SEGMENTS
            THEN [cl EXCEPT !.calibration_similarities = sims]
            ELSE IF SeqMin(sims) >= PROCESSED_AUDIO_MIN_SIMILARITY
            THEN [cl EXCEPT !.calibration_similarities = sims,
                            !.is_processed_audio = TRUE,
                            !.effective_similarity_threshold =
                                cl.similarity_threshold + PROCESSED_AUDIO_THRESHOLD_BOOST,
                            !.effective_definite_new_threshold =
                                DEFINITE_NEW_SPEAKER_THRESHOLD + PROCESSED_AUDIO_THRESHOLD_BOOST,
                            !.effective_new_speaker_threshold =
                                NEW_SPEAKER_THRESHOLD + PROCESSED_AUDIO_THRESHOLD_BOOST,
                            !.effective_minimum_match_threshold =
                                MINIMUM_MATCH_THRESHOLD + PROCESSED_AUDIO_THRESHOLD_BOOST,
                            !.is_calibrated = TRUE]
            ELSE [cl EXCEPT !.calibration_similarities = sims,
                            !.is_calibrated = TRUE]

\* speaker_embedding_history and speaker_profile_stable are defaultdicts.
HistoryOf(cl, speaker_id) ==
    IF speaker_id \in DOMAIN cl.speaker_embedding_history
    THEN cl.speaker_embedding_history[speaker_id] ELSE <<>>

StableOf(cl, speaker_id) ==
    IF speaker_id \in DOMAIN cl.speaker_profile_stable
    THEN cl.speaker_profile_stable[speaker_id] ELSE FALSE

\* _update_centroid without the trim of the history
UpdateCentroidUntrimmed(cl, speaker_id, embedding) ==
    LET history == Append(HistoryOf(cl, speaker_id), embedding)
        n == Len(history)
        centroid == IF n = 1 THEN embedding ELSE WeightedCentroid(history)
        stable == (n >= MIN_PROFILE_EMBEDDINGS) \/ StableOf(cl, speaker_id)
    IN [cl EXCEPT
          !.speaker_embedding_history = Put(@, speaker_id, history),
          !.speaker_centroids = Put(@, speaker_id, centroid),
          !.speaker_counts = Put(@, speaker_id, n),
          !.speaker_profile_stable = Put(@, speaker_id, stable)]

UpdateCentroid(cl, speaker_id, embedding) ==
    LET history == LastK(Append(HistoryOf(cl, speaker_id), embedding),
                         MaxCentroidHistory)
        n == Len(history)
        centroid == IF n = 1 THEN embedding ELSE WeightedCentroid(history)
        stable == (n >= MIN_PROFILE_EMBEDDINGS) \/ StableOf(cl, speaker_id)
    IN [cl EXCEPT
          !.speaker_embedding_history = Put(@, speaker_id, history),
          !.speaker_centroids = Put(@, speaker_id, centroid),
          !.speaker_counts = Put(@, speaker_id, n),
          !.speaker_profile_stable = Put(@, speaker_id, stable)]

\* the creation that does not advance the id counter
CreateNewSpeakerSameCounter(cl, embedding) ==
    LET speaker_id == cl.speaker_counter
    IN [cl EXCEPT
          !.first_speaker_initial_embedding =
              IF cl.speaker_counter = 0 THEN embedding ELSE @,
          !.speaker_centroids = Put(@, speaker_id, embedding),
          !.speaker_embedding_history = Put(@, speaker_id, <<embedding>>),
          !.speaker_counts = Put(@, speaker_id, 1),
          !.speaker_profile_stable = Put(@, speaker_id, FALSE)]

\* _create_new_speaker(embedding)
CreateNewSpeaker(cl, embedding) ==
    LET speaker_id == cl.speaker_counter
    IN [cl EXCEPT
          !.first_speaker_initial_embedding =
              IF cl.speaker_counter = 0 THEN embedding ELSE @,
          !.speaker_counter = @ + 1,
          !.speaker_centroids = Put(@, speaker_id, embedding),
          !.speaker_embedding_history = Put(@, speaker_id, <<embedding>>),
          !.speaker_counts = Put(@, speaker_id, 1),
          !.speaker_profile_stable = Put(@, speaker_id, FALSE)]

HasUnstableProfiles(cl) ==
    \E k \in DOMAIN cl.speaker_profile_stable : ~cl.speaker_profile_stable[k]

\* the decision without the capacity tests
BranchUncapped(cl, closest, first_speaker_similarity) ==
    IF /\ first_speaker_similarity # None
       /\ first_speaker_similarity < cl.effective_definite_new_threshold
    THEN "early_second_speaker"
    ELSE IF closest.is_reidentification /\ closest.speaker # None
    THEN "reident"
    ELSE IF closest.speaker # None
            /\ closest.similarity >= cl.effective_similarity_threshold
    THEN "match"
    ELSE IF closest.similarity < cl.effective_definite_new_threshold
    THEN "new_definite"
    ELSE IF closest.similarity < cl.effective_new_speaker_threshold
            /\ ~HasUnstableProfiles(cl)
    THEN "new_below_threshold"
    ELSE IF /\ HasUnstableProfiles(cl)
            /\ closest.speaker # None
            /\ closest.similarity >= cl.effective_minimum_match_threshold
    THEN "cold_start_match"
    ELSE "new_fallback"

\* The decision of process_segment, after the similarity scan and the
\* calibration step: which branch handles the segment.
Branch(cl, closest, first_speaker_similarity) ==
    IF /\ first_speaker_similarity # None
       /\ first_speaker_similarity < cl.effective_definite_new_threshold
       /\ Cardinality(DOMAIN cl.speaker_centroids) < cl.max_speakers
    THEN "early_second_speaker"
    ELSE IF closest.is_reidentification /\ closest.speaker # None
    THEN "reident"
    ELSE IF closest.speaker # None
            /\ closest.similarity >= cl.effective_similarity_threshold
    THEN "match"
    ELSE IF Cardinality(DOMAIN cl.speaker_centroids) < cl.max_speakers
    THEN IF closest.similarity < cl.effective_definite_new_threshold
         THEN "new_definite"
         ELSE IF closest.similarity < cl.effective_new_speaker_threshold
                 /\ ~HasUnstableProfiles(cl)
         THEN "new_below_threshold"
         ELSE IF /\ HasUnstableProfiles(cl)
                 /\ closest.speaker # None
                 /\ closest.similarity >= cl.effective_minimum_match_threshold
         THEN "cold_start_match"
         ELSE "new_fallback"
    ELSE "max_speakers"

NewSpeakerBranches ==
    {"early_second_speaker", "new_definite", "new_below_threshold", "new_fallback"}

MatchBranches == {"reident", "match", "cold_start_match"}

\* process_segment: the speaker-change test and the returned values, cl3
\* being the state after the profile was created or updated
SegmentResult(cl3, speaker_id, confidence, branch, closest, first_speaker_similarity, start_time) ==
    [ clustering |-> [cl3 EXCEPT !.current_speaker = speaker_id],
      speaker |-> speaker_id,
      confidence |-> confidence,
      branch |-> branch,
      similarity |-> closest.similarity,
      closest |-> closest.speaker,
      first_speaker_similarity |-> first_speaker_similarity,
      speaker_change |->
          IF cl3.current_speaker # None /\ cl3.current_speaker # speaker_id
          THEN <<[from_speaker |-> cl3.current_speaker,
                  to_speaker |-> speaker_id,
                  time |-> start_time]>>
          ELSE <<>> ]

\* process_segment: what the chosen branch does
TakeBranch(cl2, embedding, start_time, closest, first_speaker_similarity, branch) ==
    LET speaker_id ==
            IF branch \in NewSpeakerBranches THEN cl2.speaker_counter
            ELSE IF branch \in MatchBranches THEN closest.speaker
            ELSE IF closest.speaker # None THEN closest.speaker
            ELSE cl2.speaker_counter - 1
        confidence ==
            IF branch \in NewSpeakerBranches THEN 100
            ELSE IF branch \in MatchBranches THEN closest.similarity
            ELSE IF closest.similarity > 0 THEN closest.similarity ELSE 50
    IN SegmentResult(
           IF branch \in NewSpeakerBranches
           THEN CreateNewSpeaker(cl2, embedding)
           ELSE IF branch \in MatchBranches \/ closest.speaker # None
           THEN UpdateCentroid(cl2, speaker_id, embedding)
           ELSE cl2,
           speaker_id, confidence, branch, closest, first_speaker_similarity,
           start_time)

\* the similarity to the first speaker's first embedding, looked at only
\* early in the session while there is a single speaker
FirstSpeakerSimilarity(cl2, embedding) ==
    IF /\ cl2.first_speaker_initial_embedding # NoEmbedding
       /\ cl2.total_segments_processed <= EARLY_DETECTION_SEGMENTS
       /\ cl2.speaker_counter = 1
    THEN CosineSimilarity(embedding, cl2.first_speaker_initial_embedding)
    ELSE None

\* process_segment from the branch decision on
Decide(cl2, embedding, start_time, closest, first_speaker_similarity) ==
    TakeBranch(cl2, embedding, start_time, closest, first_speaker_similarity,
               Branch(cl2, closest, first_speaker_similarity))

\* process_segment after the calibration step
AfterCalibration(cl2, embedding, start_time, closest) ==
    Decide(cl2, embedding, start_time, closest,
           FirstSpeakerSimilarity(cl2, embedding))

\* process_segment after the similarity scan
AfterScan(cl1, embedding, start_time, closest) ==
    AfterCalibration(
        IF ~cl1.is_calibrated /\ closest.similarity > 0
        THEN CalibrateThresholds(cl1, closest.similarity)
        ELSE cl1,
        embedding, start_time, closest)

\* process_segment(embedding, start_time, end_time): the new clustering state
\* and what the call returns and emits.
ProcessSegment(cl0, embedding, start_time) ==
    AfterScan([cl0 EXCEPT !.total_segments_processed = @ + 1],
              embedding, start_time, FindClosestSpeaker(cl0, embedding))

(***************************************************************************)
(* CoreDiarizationEngine (core_diarization_engine.py).  The engine keeps   *)
(* _next_speaker_id in speaker_counter; it has no early-detection state.   *)
(***************************************************************************)

\* _update_centroid of the core engine: an unknown id is seeded instead.
CoreUpdateCentroid(cl, speaker_id, embedding) ==
    IF speaker_id \notin DOMAIN cl.speaker_centroids
    THEN [cl EXCEPT
            !.speaker_centroids = Put(@, speaker_id, embedding),
            !.speaker_counts = Put(@, speaker_id, 1),
            !.speaker_embedding_history = Put(@, speaker_id, <<embedding>>)]
    ELSE LET history == LastK(Append(HistoryOf(cl, speaker_id), embedding),
                              MaxCentroidHistory)
             n == Len(history)
             centroid == IF n = 1 THEN embedding ELSE WeightedCentroid(history)
             stable == (n >= MIN_PROFILE_EMBEDDINGS) \/ StableOf(cl, speaker_id)
         IN [cl EXCEPT
               !.speaker_embedding_history = Put(@, speaker_id, history),
               !.speaker_centroids = Put(@, speaker_id, centroid),
               !.speaker_counts = Put(@, speaker_id, n),
               !.speaker_profile_stable =
                   IF stable THEN Put(@, speaker_id, TRUE) ELSE @]

\* the four lines that create SPEAKER_{_next_speaker_id}
CoreCreateSpeaker(cl, embedding) ==
    LET speaker_id == cl.speaker_counter
    IN [cl EXCEPT
          !.speaker_counter = @ + 1,
          !.speaker_centroids = Put(@, speaker_id, embedding),
          !.speaker_counts = Put(@, speaker_id, 1),
          !.speaker_embedding_history = Put(@, speaker_id, <<embedding>>),
          !.speaker_profile_stable = Put(@, speaker_id, FALSE)]

CoreBranch(cl, closest) ==
    IF closest.is_reidentification /\ closest.speaker # None
    THEN "reident"
    ELSE IF closest.speaker # None
            /\ closest.similarity >= cl.effective_similarity_threshold
    THEN "match"
    ELSE IF Cardinality(DOMAIN cl.speaker_centroids) < cl.max_speakers
    THEN IF closest.similarity < cl.effective_definite_new_threshold
         THEN "new_definite"
         ELSE IF closest.similarity < cl.effective_new_speaker_threshold
                 /\ ~HasUnstableProfiles(cl)
         THEN "new_below_threshold"
         ELSE IF /\ HasUnstableProfiles(cl)
                 /\ closest.speaker # None
                 /\ closest.similarity >= cl.effective_minimum_match_threshold
         THEN "cold_start_match"
         ELSE "new_fallback"
    ELSE "max_speakers"

\* _find_or_create_speaker(embedding)
FindOrCreateSpeaker(cl0, embedding) ==
    LET closest == FindClosestSpeaker(cl0, embedding)
        cl1 == IF ~cl0.is_calibrated /\ closest.similarity > 0
               THEN CalibrateThresholds(cl0, closest.similarity)
               ELSE cl0
        branch == CoreBranch(cl1, closest)
        speaker_id ==
            IF branch \in NewSpeakerBranches THEN cl1.speaker_counter
            ELSE IF closest.speaker # None THEN closest.speaker
            ELSE cl1.speaker_counter - 1
        confidence ==
            IF branch \in NewSpeakerBranches THEN 100
            ELSE IF branch \in MatchBranches THEN closest.similarity
            ELSE IF closest.similarity > 0 THEN closest.similarity ELSE 50
        cl2 == IF branch \in NewSpeakerBranches
               THEN CoreCreateSpeaker(cl1, embedding)
               ELSE IF closest.speaker # None
               THEN CoreUpdateCentroid(cl1, speaker_id, embedding)
               ELSE cl1
    IN [ clustering |-> cl2,
         speaker |-> speaker_id,
         confidence |-> confidence,
         branch |-> branch,
         similarity |-> closest.similarity,
         closest |-> closest.speaker,
         first_speaker_similarity |-> None,
         speaker_change |-> <<>> ]

\* reset(): the dictionaries, the id counter and the current speaker.
CoreResetState(cl) ==
    [cl EXCEPT
       !.speaker_centroids = <<>>,
       !.speaker_counts = <<>>,
       !.speaker_embedding_history = <<>>,
       !.speaker_profile_stable = <<>>,
       !.speaker_counter = 0,
       !.current_speaker = None]

(***************************************************************************)
(* LiveDiarizer (live_diarize.py).  Audio is a sequence of hops of 0.5 s;  *)
(* a hop carries the voice heard in it and `t`, the time the transcriber's *)
(* clock gives to that audio (`t` is not a field of the program: it tags   *)
(* the samples so that the two clocks can be compared).                    *)
(***************************************************************************)
SegmentHops == 4          \* segment_duration 2.0 s / hop_duration 0.5 s
NearestHops == 6          \* 3.0 s, the nearest-segment tolerance
MsPerHop == 500           \* milliseconds in a hop
CentisPerHop == 50        \* hundredths of a second in a hop

SpeakerName(k) == <<"Speaker", k>>          \* f"Speaker_{k}"
NoSpeaker == <<"none", 0>>                  \* None, or the key is absent

NewDiarizer == [ audio_buffer |-> <<>>, processed_samples |-> 0 ]

Voices == {"A", "B", "noise"}

\* extract_embedding: the embedding of a window, NoEmbedding when the
\* extraction fails.  The voice at the start of the window decides.
ExtractEmbedding(segment_audio) ==
    CASE segment_audio[1].voice = "A" -> E0
      [] segment_audio[1].voice = "B" -> E75
      [] OTHER -> NoEmbedding

SpeakerSegmentLine(seg) ==
    [ type |-> "speaker_segment", speaker |-> seg.speaker,
      start |-> seg.start, end |-> seg.end, confidence |-> seg.confidence ]

SpeakerChangeLines(r) ==
    IF r.speaker_change = <<>> THEN <<>>
    ELSE << [ type |-> "speaker_change",
              from_speaker |-> SpeakerName(r.speaker_change[1].from_speaker),
              to_speaker |-> SpeakerName(r.speaker_change[1].to_speaker),
              time |-> r.speaker_change[1].time ] >>

\* the same turn with the segment record written before the change record
WindowOutcomeSegmentFirst(d, cl, segments, lines, embedding, r) ==
    LET segment == [ speaker |-> SpeakerName(r.speaker),
                     start |-> d.processed_samples,
                     end |-> d.processed_samples + SegmentHops,
                     confidence |-> r.confidence,
                     t |-> d.audio_buffer[1].t ]
        slid == [d EXCEPT
                   !.audio_buffer = SubSeq(@, 2, Len(@)),
                   !.processed_samples = @ + 1]
    IN IF embedding = NoEmbedding
       THEN [ diarizer |-> slid, clustering |-> cl,
              segments |-> segments, lines |-> lines ]
       ELSE [ diarizer |-> slid, clustering |-> r.clustering,
              segments |-> Append(segments, segment),
              lines |-> lines \o <<SpeakerSegmentLine(segment)>>
                              \o SpeakerChangeLines(r) ]

\* the state after one turn of the while loop of add_audio, r being what
\* process_segment returned for the window (unused when extraction failed)
WindowOutcome(d, cl, segments, lines, embedding, r) ==
    LET segment == [ speaker |-> SpeakerName(r.speaker),
                     start |-> d.processed_samples,
                     end |-> d.processed_samples + SegmentHops,
                     confidence |-> r.confidence,
                     t |-> d.audio_buffer[1].t ]
        slid == [d EXCEPT
                   !.audio_buffer = SubSeq(@, 2, Len(@)),
                   !.processed_samples = @ + 1]
    IN IF embedding = NoEmbedding
       THEN [ diarizer |-> slid, clustering |-> cl,
              segments |-> segments, lines |-> lines ]
       ELSE [ diarizer |-> slid, clustering |-> r.clustering,
              segments |-> Append(segments, segment),
              lines |-> lines \o SpeakerChangeLines(r)
                              \o <<SpeakerSegmentLine(segment)>> ]

\* one turn of the while loop of add_audio
AddAudioWindow(d, cl, segments, lines) ==
    WindowOutcome(d, cl, segments, lines,
        ExtractEmbedding(SubSeq(d.audio_buffer, 1, SegmentHops)),
        ProcessSegment(cl,
                       ExtractEmbedding(SubSeq(d.audio_buffer, 1, SegmentHops)),
                       d.processed_samples))

\* the element of a one-element set
The(S) == CHOOSE x \in S : TRUE

\* the while loop of add_audio; a turn is finished before the next begins
RECURSIVE AddAudioLoop(_, _, _, _)
AddAudioLoop(d, cl, segments, lines) ==
    IF Len(d.audio_buffer) < SegmentHops
    THEN [ raised |-> FALSE, diarizer |-> d, clustering |-> cl,
           segments |-> segments, lines |-> lines ]
    ELSE The({ AddAudioLoop(w.diarizer, w.clustering, w.segments, w.lines) :
               w \in {AddAudioWindow(d, cl, segments, lines)} })

\* add_audio(audio).  fault is "ok", "concatenate" (np.concatenate raises:
\* nothing was stored) or "window" (the first window raises after the audio
\* was appended to the buffer).
AddAudio(d, cl, audio, fault) ==
    IF fault = "concatenate"
    THEN [ raised |-> TRUE, diarizer |-> d, clustering |-> cl,
           segments |-> <<>>, lines |-> <<>> ]
    ELSE IF fault = "window"
    THEN [ raised |-> TRUE,
           diarizer |-> [d EXCEPT !.audio_buffer = @ \o audio],
           clustering |-> cl, segments |-> <<>>, lines |-> <<>> ]
    ELSE AddAudioLoop([d EXCEPT !.audio_buffer = @ \o audio], cl, <<>>, <<>>)

Min(a, b) == IF a <= b THEN a ELSE b
Max(a, b) == IF a >= b THEN a ELSE b
Abs(a) == IF a >= 0 THEN a ELSE -a

Overlap(transcript_start, transcript_end, seg) ==
    Max(0, Min(transcript_end, seg.end) - Max(transcript_start, seg.start))

\* speaker_overlaps[speaker]: the overlap summed over the speaker's segments
RECURSIVE SpeakerOverlap(_, _, _, _, _)
SpeakerOverlap(speaker, transcript_start, transcript_end, recent_segments, i) ==
    IF i > Len(recent_segments) THEN 0
    ELSE (IF recent_segments[i].speaker = speaker
          THEN Overlap(transcript_start, transcript_end, recent_segments[i])
          ELSE 0)
         + SpeakerOverlap(speaker, transcript_start, transcript_end,
                          recent_segments, i + 1)

\* segment_distance(speaker_seg)
SegmentDistance(transcript_start, transcript_end, seg) ==
    Min(Min(Abs(seg.start - transcript_start), Abs(seg.end - transcript_start)),
        Min(Abs(seg.start - transcript_end), Abs(seg.end - transcript_end)))

\* assign_speaker_to_transcript(transcript_start, transcript_end, recent)
AssignSpeakerToTranscript(transcript_start, transcript_end, recent_segments) ==
    LET idx == 1..Len(recent_segments)
        over(i) == Overlap(transcript_start, transcript_end, recent_segments[i])
        total(i) == SpeakerOverlap(recent_segments[i].speaker, transcript_start,
                                   transcript_end, recent_segments, 1)
        overlapping == {i \in idx : over(i) > 0}
        \* max() keeps the first of the speakers with the largest overlap,
        \* in the order the dictionary received them
        best == CHOOSE i \in overlapping :
                  \A j \in overlapping :
                     \/ total(j) < total(i)
                     \/ (total(j) = total(i) /\ i <= j)
        dist(i) == SegmentDistance(transcript_start, transcript_end,
                                   recent_segments[i])
        nearest == CHOOSE i \in idx :
                     \A j \in idx :
                        dist(i) < dist(j) \/ (dist(i) = dist(j) /\ i <= j)
        transcript_duration == transcript_end - transcript_start
    IN IF recent_segments = <<>>
       THEN [ speaker |-> NoSpeaker, confidence |-> 0 ]
       ELSE IF overlapping = {}
       THEN IF dist(nearest) <= NearestHops
            THEN [ speaker |-> recent_segments[nearest].speaker,
                   confidence |->
                       (recent_segments[nearest].confidence
                          * (2 * NearestHops - dist(nearest)))
                       \div (2 * NearestHops) ]
            ELSE [ speaker |-> NoSpeaker, confidence |-> 0 ]
       ELSE [ speaker |-> recent_segments[best].speaker,
              confidence |->
                  IF transcript_duration > 0
                  THEN Min((100 * total(best)) \div transcript_duration, 100)
                  ELSE 0 ]

(***************************************************************************)
(* StreamingTranscriber (stream_transcribe.py).  The operators below work  *)
(* on s = [transcriber, lines]: the object's fields and the JSON lines     *)
(* written so far by the call.                                             *)
(***************************************************************************)
DIARIZATION_FAILURE_THRESHOLD == 3
RECOVERY_MIN_SEGMENTS == 5
MAX_SPEAKER_HISTORY_HOPS == 600     \* MAX_SPEAKER_HISTORY_SECONDS = 300.0
FALLBACK_MIN_CONFIDENCE == 30

NewTranscriber ==
    [ initial_time_offset |-> 0,
      total_processed_samples |-> 0,
      processed_segment_times |-> {},
      processed_speaker_segments |-> {},
      recent_speaker_segments |-> <<>>,
      last_known_speaker |-> NoSpeaker,
      last_known_speaker_confidence |-> 0,
      diarization_consecutive_failures |-> 0,
      diarization_total_failures |-> 0,
      diarization_total_segments |-> 0,
      diarization_health_warning_emitted |-> FALSE,
      diarization_last_failure_time |-> None,
      diarization_last_failure_reason |-> "none" ]

\* f"{start:.2f}-{end:.2f}": both times rounded to hundredths of a second
SegmentKey(start, end) == <<start * CentisPerHop, end * CentisPerHop>>

\* f"speaker_unknown_{int(timestamp * 1000)}"
GenerateFallbackSpeakerId(timestamp) == <<"speaker_unknown", timestamp * MsPerHop>>

EmitDiarizationHealthWarning(s) ==
    LET tr == s.transcriber
    IN [ transcriber |-> [tr EXCEPT !.diarization_health_warning_emitted = TRUE],
         lines |-> Append(s.lines,
            [ type |-> "diarization_health_warning",
              consecutive_failures |-> tr.diarization_consecutive_failures,
              total_failures |-> tr.diarization_total_failures,
              last_failure_reason |-> tr.diarization_last_failure_reason,
              last_failure_time |->
                  IF tr.diarization_last_failure_time \notin {None, 0}
                  THEN tr.diarization_last_failure_time ELSE None ]) ]

EmitDiarizationRecovery(s) ==
    [ s EXCEPT !.lines = Append(@,
        [ type |-> "diarization_health_recovery",
          total_segments_processed |-> s.transcriber.diarization_total_segments,
          previous_failures |-> s.transcriber.diarization_total_failures ]) ]

RecordDiarizationFailure(s, error_reason) ==
    LET tr == [s.transcriber EXCEPT
                 !.diarization_consecutive_failures = @ + 1,
                 !.diarization_total_failures = @ + 1,
                 !.diarization_last_failure_time =
                     s.transcriber.total_processed_samples,
                 !.diarization_last_failure_reason = error_reason]
        s1 == [s EXCEPT !.transcriber = tr]
    IN IF /\ tr.diarization_consecutive_failures >= DIARIZATION_FAILURE_THRESHOLD
          /\ ~tr.diarization_health_warning_emitted
       THEN EmitDiarizationHealthWarning(s1)
       ELSE s1

RecordDiarizationSuccess(s) ==
    LET tr == [s.transcriber EXCEPT
                 !.diarization_consecutive_failures = 0,
                 !.diarization_total_segments = @ + 1]
        s1 == [s EXCEPT !.transcriber = tr]
    IN IF /\ tr.diarization_health_warning_emitted
          /\ tr.diarization_total_segments > RECOVERY_MIN_SEGMENTS
       THEN [EmitDiarizationRecovery(s1) EXCEPT
               !.transcriber.diarization_health_warning_emitted = FALSE]
       ELSE s1

\* _get_fallback_speaker_for_segment(seg)
GetFallbackSpeakerForSegment(tr, seg) ==
    IF tr.last_known_speaker # NoSpeaker
    THEN [ speaker |-> tr.last_known_speaker,
           confidence |-> Max(FALLBACK_MIN_CONFIDENCE,
                              tr.last_known_speaker_confidence \div 2) ]
    ELSE [ speaker |-> GenerateFallbackSpeakerId(seg.start), confidence |-> 0 ]

\* STEP 2 for one speaker segment; malformed: float() or str() raises
\* TypeError or ValueError on one of its values.
NormaliseSpeakerSegment(s, seg, malformed) ==
    IF malformed
    THEN RecordDiarizationFailure(s, "serialization")
    ELSE IF SegmentKey(seg.start, seg.end)
              \in s.transcriber.processed_speaker_segments
    THEN s
    ELSE RecordDiarizationSuccess(
           [s EXCEPT
              !.transcriber.processed_speaker_segments =
                  @ \cup {SegmentKey(seg.start, seg.end)},
              !.transcriber.recent_speaker_segments = Append(@, seg),
              !.transcriber.last_known_speaker = seg.speaker,
              !.transcriber.last_known_speaker_confidence = seg.confidence])

RECURSIVE NormaliseSpeakerSegments(_, _, _, _)
NormaliseSpeakerSegments(s, speaker_segments, malformed, i) ==
    IF i > Len(speaker_segments) THEN s
    ELSE NormaliseSpeakerSegments(
           NormaliseSpeakerSegment(s, speaker_segments[i], i \in malformed),
           speaker_segments, malformed, i + 1)

\* STEP 3: forget speaker segments that ended more than 300 s ago
LimitSpeakerHistory(tr) ==
    LET current_time == tr.total_processed_samples
        cutoff_time == current_time - MAX_SPEAKER_HISTORY_HOPS
    IN IF current_time > MAX_SPEAKER_HISTORY_HOPS
       THEN [tr EXCEPT
               !.recent_speaker_segments =
                   SelectSeq(@, LAMBDA x : x.end > cutoff_time),
               !.processed_speaker_segments =
                   {key \in @ : key[2] > cutoff_time * CentisPerHop}]
       ELSE tr

\* STEP 4 with the fallback taken only when add_audio had failed
AssignTranscriptSpeakerFallbackOnAudioFailure(s, seg, diarization_succeeded, raises) ==
    LET recent == s.transcriber.recent_speaker_segments
        attempt == diarization_succeeded /\ recent # <<>>
        a == AssignSpeakerToTranscript(seg.start, seg.end, recent)
        speaker_assigned == attempt /\ ~raises /\ a.speaker # NoSpeaker
        s1 == IF ~attempt THEN s
              ELSE IF raises THEN RecordDiarizationFailure(s, "speaker_assignment")
              ELSE IF a.speaker # NoSpeaker THEN RecordDiarizationSuccess(s)
              ELSE s
        fallback == GetFallbackSpeakerForSegment(s1.transcriber, seg)
    IN [ s |-> s1,
         seg |-> IF speaker_assigned
                 THEN [seg EXCEPT !.speaker = a.speaker,
                                  !.speaker_confidence = a.confidence]
                 ELSE IF ~diarization_succeeded
                 THEN [seg EXCEPT !.speaker = fallback.speaker,
                                  !.speaker_confidence = fallback.confidence,
                                  !.speaker_fallback = TRUE]
                 ELSE seg ]

\* STEP 4 for one transcript segment; raises: assign_speaker_to_transcript
\* raises for this segment.
AssignTranscriptSpeaker(s, seg, diarization_succeeded, raises) ==
    LET recent == s.transcriber.recent_speaker_segments
        attempt == diarization_succeeded /\ recent # <<>>
        a == AssignSpeakerToTranscript(seg.start, seg.end, recent)
        speaker_assigned == attempt /\ ~raises /\ a.speaker # NoSpeaker
        s1 == IF ~attempt THEN s
              ELSE IF raises THEN RecordDiarizationFailure(s, "speaker_assignment")
              ELSE IF a.speaker # NoSpeaker THEN RecordDiarizationSuccess(s)
              ELSE s
        fallback == GetFallbackSpeakerForSegment(s1.transcriber, seg)
    IN [ s |-> s1,
         seg |-> IF speaker_assigned
                 THEN [seg EXCEPT !.speaker = a.speaker,
                                  !.speaker_confidence = a.confidence]
                 ELSE [seg EXCEPT !.speaker = fallback.speaker,
                                  !.speaker_confidence = fallback.confidence,
                                  !.speaker_fallback = TRUE] ]

RECURSIVE AssignTranscriptSpeakers(_, _, _, _, _, _)
AssignTranscriptSpeakersNext(r, segments, diarization_succeeded, assign_raises, i, done) ==
    AssignTranscriptSpeakers(r.s, segments, diarization_succeeded,
                             assign_raises, i + 1, Append(done, r.seg))

\* the loop of STEP 4
AssignTranscriptSpeakers(s, segments, diarization_succeeded, assign_raises, i, done) ==
    IF i > Len(segments) THEN [ s |-> s, segments |-> done ]
    ELSE AssignTranscriptSpeakersNext(
           AssignTranscriptSpeaker(s, segments[i], diarization_succeeded,
                                   i \in assign_raises),
           segments, diarization_succeeded, assign_raises, i, done)

\* STEP 1's outcome recorded, then STEP 2 and STEP 3; a is what add_audio did
NormaliseAndLimit(s, a, malformed) ==
    LET s1 == IF a.raised
              THEN RecordDiarizationFailure(s, "audio_processing")
              ELSE [s EXCEPT !.lines = @ \o a.lines]
        s2 == IF ~a.raised /\ a.segments # <<>>
              THEN NormaliseSpeakerSegments(s1, a.segments, malformed, 1)
              ELSE s1
    IN [s2 EXCEPT !.transcriber = LimitSpeakerHistory(@)]

DiarizationOutcome(a, r) ==
    [ s |-> r.s, segments |-> r.segments,
      diarizer |-> a.diarizer, clustering |-> a.clustering,
      diarization_succeeded |-> ~a.raised,
      speaker_segments |-> a.segments ]

ProcessDiarizationAfter(s, a, segments, inp) ==
    DiarizationOutcome(a,
        AssignTranscriptSpeakers(NormaliseAndLimit(s, a, inp.malformed),
                                 segments, ~a.raised, inp.assign_raises,
                                 1, <<>>))

\* _process_diarization(audio, segments)
ProcessDiarization(s, d, cl, audio, segments, inp) ==
    ProcessDiarizationAfter(s, AddAudio(d, cl, audio, inp.add_audio),
                            segments, inp)

\* the same loop without the test for a key seen before
RECURSIVE CollectSegmentsKeepingDuplicates(_, _, _, _, _, _)
CollectSegmentsKeepingDuplicates(tr, asr, time_offset, n, i, segments) ==
    IF i > n THEN [ transcriber |-> tr, segments |-> segments ]
    ELSE LET seg_start == asr[i].start + time_offset
             seg_end == asr[i].end + time_offset
             segment_key == SegmentKey(seg_start, seg_end)
         IN CollectSegmentsKeepingDuplicates(
                   [tr EXCEPT !.processed_segment_times = @ \cup {segment_key}],
                   asr, time_offset, n, i + 1,
                   Append(segments,
                          [ start |-> seg_start, end |-> seg_end,
                            speaker |-> NoSpeaker,
                            speaker_confidence |-> None,
                            speaker_fallback |-> FALSE ]))

\* the loop over the recogniser's segments: every one of the first n that
\* survives the filters gets the chunk's time offset and is kept unless its
\* key was seen before
RECURSIVE CollectSegments(_, _, _, _, _, _)
CollectSegments(tr, asr, time_offset, n, i, segments) ==
    IF i > n THEN [ transcriber |-> tr, segments |-> segments ]
    ELSE LET seg_start == asr[i].start + time_offset
             seg_end == asr[i].end + time_offset
             segment_key == SegmentKey(seg_start, seg_end)
         IN IF segment_key \in tr.processed_segment_times
            THEN CollectSegments(tr, asr, time_offset, n, i + 1, segments)
            ELSE CollectSegments(
                   [tr EXCEPT !.processed_segment_times = @ \cup {segment_key}],
                   asr, time_offset, n, i + 1,
                   Append(segments,
                          [ start |-> seg_start, end |-> seg_end,
                            speaker |-> NoSpeaker,
                            speaker_confidence |-> None,
                            speaker_fallback |-> FALSE ]))

\* the chunk's samples as the diarizer receives them
ChunkAudio(voice, time_offset, num_samples) ==
    [j \in 1..num_samples |-> [ voice |-> voice, t |-> time_offset + j - 1 ]]

ChunkOutcome(tr, d, cl, returned_segments, lines, segments, path) ==
    [ transcriber |-> tr, diarizer |-> d, clustering |-> cl,
      returned |-> returned_segments, lines |-> lines, segments |-> segments,
      speaker_segments |-> <<>>, diarization_succeeded |-> FALSE,
      path |-> path ]

\* Step 5 of transcribe_chunk; p is what _process_diarization did
Diarized(segments, p) ==
    [ ChunkOutcome(p.s.transcriber, p.diarizer, p.clustering, p.segments,
                   p.s.lines, segments, "diarized")
      EXCEPT !.speaker_segments = p.speaker_segments,
             !.diarization_succeeded = p.diarization_succeeded ]

\* transcribe_chunk from the time offset on; c is what the loop over the
\* recogniser's segments kept before it ended or raised
TranscribeFrom(c, d, cl, voice, time_offset, num_samples, inp) ==
    LET counted == [c.transcriber EXCEPT
                      !.total_processed_samples = @ + num_samples]
    IN IF inp.fail_after # None
       THEN ChunkOutcome(c.transcriber, d, cl, c.segments,
                         << [ type |-> "error", code |-> "TRANSCRIBE_ERROR" ] >>,
                         c.segments, "error")
       ELSE IF c.segments = <<>>
       THEN ChunkOutcome(counted, d, cl, <<>>, <<>>, <<>>, "no_segments")
       ELSE Diarized(c.segments,
                ProcessDiarization([transcriber |-> counted, lines |-> <<>>],
                    d, cl, ChunkAudio(voice, time_offset, num_samples),
                    c.segments, inp))

\* transcribe_chunk(audio_bytes), model loaded, VAD and diarization enabled.
\* inp.fail_after = k: an exception is raised inside the try block after k
\* segments of the recogniser were handled.
TranscribeChunkResult(tr, d, cl, voice, num_samples, inp) ==
    IF ~inp.has_voice
    THEN ChunkOutcome([tr EXCEPT !.total_processed_samples = @ + num_samples],
                      d, cl, <<>>, <<>>, <<>>, "vad_rejected")
    ELSE TranscribeFrom(
           CollectSegments(tr, inp.asr, tr.total_processed_samples,
                           IF inp.fail_after = None THEN Len(inp.asr)
                           ELSE inp.fail_after,
                           1, <<>>),
           d, cl, voice, tr.total_processed_samples, num_samples, inp)

(***************************************************************************)
(* What a chunk brings: the voice in it, the verdict of the voice gate,    *)
(* what the recogniser returns, and the failures that happen.              *)
(***************************************************************************)
MaxChunks == 2            \* chunks of a transcription session
ChunkHops == 6            \* chunk_duration in hops (3.0 s)

Input(has_voice, asr, fail_after, add_audio, malformed, assign_raises) ==
    [ has_voice |-> has_voice, asr |-> asr, fail_after |-> fail_after,
      add_audio |-> add_audio, malformed |-> malformed,
      assign_raises |-> assign_raises ]

\* segments of the recogniser, in hops from the start of the chunk
OneSegment == << [start |-> 0, end |-> 3] >>
TwoSegments == << [start |-> 0, end |-> 3], [start |-> 3, end |-> ChunkHops] >>
AsrResults == { <<>>, OneSegment, TwoSegments }

\* the voice gate rejects the chunk; or an exception ends the try block
\* after the recogniser's segments were handled; or the chunk goes through,
\* with add_audio raising, with the first speaker segment malformed, or
\* with assign_speaker_to_transcript raising for some transcript segments
ChunkInputs ==
    { Input(FALSE, <<>>, None, "ok", {}, {}) }
    \cup { Input(TRUE, asr, Len(asr), "ok", {}, {}) : asr \in AsrResults }
    \cup { Input(TRUE, asr, None, "ok", {}, {}) : asr \in AsrResults }
    \cup { Input(TRUE, OneSegment, None, fault, {}, {}) :
             fault \in {"concatenate", "window"} }
    \cup { Input(TRUE, OneSegment, None, "ok", {1}, {}),
           Input(TRUE, OneSegment, None, "ok", {}, {1}),
           Input(TRUE, TwoSegments, None, "ok", {1}, {1}) }
    \cup { Input(TRUE, TwoSegments, None, "ok", {}, assign_raises) :
             assign_raises \in (SUBSET {1, 2}) \ {{}} }

NoChunk ==
    [ op |-> "init", chunks |-> 0, path |-> "none", voice |-> "none",
      inp |-> Input(FALSE, <<>>, None, "ok", {}, {}),
      segments |-> <<>>, speaker_segments |-> <<>>,
      diarization_succeeded |-> FALSE ]

\* read_stdin_audio not running
NoLoop == [ pc |-> "none" ]

(***************************************************************************)
(* The engines driven by a stream of embeddings.                           *)
(***************************************************************************)
NoCall ==
    [ op |-> "init", speaker |-> None, confidence |-> 0, branch |-> "none",
      similarity |-> 0, closest |-> None, first_speaker_similarity |-> None,
      speaker_change |-> <<>>, calls |-> 0 ]

Returned(r, op) ==
    [ op |-> op, speaker |-> r.speaker, confidence |-> r.confidence,
      branch |-> r.branch, similarity |-> r.similarity, closest |-> r.closest,
      first_speaker_similarity |-> r.first_speaker_similarity,
      speaker_change |-> r.speaker_change, calls |-> last.calls + 1 ]

EngineInit ==
    /\ engine \in {"live", "core"}
    /\ pool \in IF engine = "live" THEN LivePools ELSE CorePools
    /\ clustering = IF engine = "live"
                    THEN NewClustering(LIVE_SIMILARITY_THRESHOLD, MaxSpeakers)
                    ELSE NewClustering(CORE_SIMILARITY_THRESHOLD, MaxSpeakers)
    /\ last = NoCall
    /\ transcriber = NewTranscriber
    /\ diarizer = NewDiarizer
    /\ returned = <<>>
    /\ output = <<>>
    /\ call = NoChunk
    /\ audio_buffer = <<>>
    /\ loop = NoLoop

LiveProcessSegment ==
    /\ engine = "live"
    /\ clustering.total_segments_processed < SessionLimit(pool)
    /\ \E embedding \in pool :
         LET r == ProcessSegment(clustering, embedding,
                                 clustering.total_segments_processed)
         IN /\ clustering' = r.clustering
            /\ last' = Returned(r, "process_segment")
    /\ UNCHANGED <<engine, pool>>
    /\ UNCHANGED streamVars
    /\ UNCHANGED loopVars

CoreFindOrCreate ==
    /\ engine = "core"
    /\ last.calls < SessionLimit(pool)
    /\ \E embedding \in pool :
         LET r == FindOrCreateSpeaker(clustering, embedding)
         IN /\ clustering' = [r.clustering EXCEPT
                                 !.current_speaker = r.speaker]
            /\ last' = Returned(r, "find_or_create_speaker")
    /\ UNCHANGED <<engine, pool>>
    /\ UNCHANGED streamVars
    /\ UNCHANGED loopVars

CoreReset ==
    /\ engine = "core"
    /\ clustering' = CoreResetState(clustering)
    /\ last' = [NoCall EXCEPT !.op = "reset", !.calls = last.calls]
    /\ UNCHANGED <<engine, pool>>
    /\ UNCHANGED streamVars
    /\ UNCHANGED loopVars

EngineNext == LiveProcessSegment \/ CoreFindOrCreate \/ CoreReset

SpecEngine == EngineInit /\ [][EngineNext]_vars

(***************************************************************************)
(* The transcriber fed chunk after chunk (process_buffer with a full       *)
(* buffer).                                                                *)
(***************************************************************************)
StreamInit ==
    /\ engine = "stream"
    /\ pool = PoolTwo
    /\ clustering = NewClustering(STREAM_SIMILARITY_THRESHOLD, MaxSpeakers)
    /\ last = NoCall
    /\ transcriber = NewTranscriber
    /\ diarizer = NewDiarizer
    /\ returned = <<>>
    /\ output = <<>>
    /\ call = NoChunk
    /\ audio_buffer = <<>>
    /\ loop = NoLoop

TranscribeChunk ==
    /\ engine = "stream"
    /\ call.chunks < MaxChunks
    /\ \E voice \in Voices, inp \in ChunkInputs :
            \E r \in {TranscribeChunkResult(transcriber, diarizer, clustering,
                                            voice, ChunkHops, inp)} :
               /\ transcriber' = r.transcriber
               /\ diarizer' = r.diarizer
               /\ clustering' = r.clustering
               /\ returned' = r.returned
               /\ output' = output \o r.lines
               /\ call' = [ op |-> "transcribe_chunk",
                            chunks |-> call.chunks + 1,
                            path |-> r.path, voice |-> voice, inp |-> inp,
                            segments |-> r.segments,
                            speaker_segments |-> r.speaker_segments,
                            diarization_succeeded |-> r.diarization_succeeded ]
    /\ UNCHANGED <<engine, pool, last>>
    /\ UNCHANGED loopVars

StreamNext == TranscribeChunk

SpecStream == StreamInit /\ [][StreamNext]_vars


(***************************************************************************)
(* The health monitor of the transcriber, one recorded outcome at a time.  *)
(* _process_diarization records a failure when add_audio raises            *)
(* ("audio_processing"), when a speaker segment cannot be normalised       *)
(* ("serialization") and when assign_speaker_to_transcript raises          *)
(* ("speaker_assignment"); it records a success for every speaker segment  *)
(* stored and for every transcript segment given a speaker by overlap.     *)
(* `call` remembers the recorded outcome and two run lengths the code does *)
(* not keep: the transcript segments in a row whose assignment raised, and *)
(* the successes recorded since the last failure.                          *)
(***************************************************************************)
MaxEvents == 10           \* outcomes recorded in a session

FailureReasons == {"audio_processing", "serialization", "speaker_assignment"}
SuccessStages == {"speaker_segment", "speaker_assignment"}

NoEvent ==
    [ op |-> "init", stage |-> "none", events |-> 0,
      assign_failure_run |-> 0, success_run |-> 0 ]

HealthInit ==
    /\ engine = "health"
    /\ pool = PoolTwo
    /\ clustering = NewClustering(STREAM_SIMILARITY_THRESHOLD, MaxSpeakers)
    /\ last = NoCall
    /\ transcriber = NewTranscriber
    /\ diarizer = NewDiarizer
    /\ returned = <<>>
    /\ output = <<>>
    /\ call = NoEvent
    /\ audio_buffer = <<>>
    /\ loop = NoLoop

\* _record_diarization_failure(error_reason, error_msg)
RecordFailure ==
    /\ engine = "health"
    /\ call.events < MaxEvents
    /\ \E error_reason \in FailureReasons :
         \E r \in {RecordDiarizationFailure(
                      [transcriber |-> transcriber, lines |-> <<>>],
                      error_reason)} :
            /\ transcriber' = r.transcriber
            /\ output' = output \o r.lines
            /\ call' = [ op |-> "record_failure", stage |-> error_reason,
                         events |-> call.events + 1,
                         assign_failure_run |->
                             IF error_reason = "speaker_assignment"
                             THEN call.assign_failure_run + 1
                             ELSE IF error_reason = "audio_processing"
                             THEN 0
                             ELSE call.assign_failure_run,
                         success_run |-> 0 ]
    /\ UNCHANGED <<engine, pool, clustering, last, diarizer, returned>>
    /\ UNCHANGED loopVars

\* _record_diarization_success()
RecordSuccess ==
    /\ engine = "health"
    /\ call.events < MaxEvents
    /\ \E stage \in SuccessStages :
         \E r \in {RecordDiarizationSuccess(
                      [transcriber |-> transcriber, lines |-> <<>>])} :
            /\ transcriber' = r.transcriber
            /\ output' = output \o r.lines
            /\ call' = [ op |-> "record_success", stage |-> stage,
                         events |-> call.events + 1,
                         assign_failure_run |->
                             IF stage = "speaker_assignment"
                             THEN 0 ELSE call.assign_failure_run,
                         success_run |-> call.success_run + 1 ]
    /\ UNCHANGED <<engine, pool, clustering, last, diarizer, returned>>
    /\ UNCHANGED loopVars

HealthNext == RecordFailure \/ RecordSuccess

SpecHealth == HealthInit /\ [][HealthNext]_vars

(***************************************************************************)
(* The byte buffer of the transcriber and the loop that feeds it           *)
(* (read_stdin_audio of stream_transcribe.py).  A byte is the number of    *)
(* its position in the stream; a sample stands for one hop of audio.       *)
(***************************************************************************)
BytesPerSample == 2       \* bit_depth // 8
Channels == 1
BytesPerFrame == BytesPerSample * Channels
SamplesPerSecond == 1000 \div MsPerHop

\* int(chunk_duration * sample_rate * bytes_per_frame)
ChunkBytes == ChunkHops * BytesPerFrame

ReadSize == 5             \* read_size, in bytes
MaxReads == 6             \* blocks read in a session

\* bytes_to_float_array(audio_bytes): np.frombuffer raises ValueError when
\* the length is no multiple of the item size, reshape(-1, 2) when a stereo
\* block holds an odd number of items.
BytesToFloatArray(audio_bytes) ==
    IF Len(audio_bytes) % BytesPerSample # 0
    THEN [ raised |-> TRUE, samples |-> 0 ]
    ELSE IF Channels = 2 /\ (Len(audio_bytes) \div BytesPerSample) % 2 # 0
    THEN [ raised |-> TRUE, samples |-> 0 ]
    ELSE [ raised |-> FALSE,
           samples |-> (Len(audio_bytes) \div BytesPerSample) \div Channels ]

\* transcribe_chunk(audio_bytes): the conversion is the first statement of
\* the try block, so its exception is reported by the handler of the block.
TranscribeChunkBytes(tr, d, cl, voice, audio_bytes, inp) ==
    IF BytesToFloatArray(audio_bytes).raised
    THEN ChunkOutcome(tr, d, cl, <<>>,
                      << [ type |-> "error", code |-> "TRANSCRIBE_ERROR" ] >>,
                      <<>>, "error")
    ELSE TranscribeChunkResult(tr, d, cl, voice,
                               BytesToFloatArray(audio_bytes).samples, inp)

\* add_audio(audio_data)
ExtendBuffer(buffer, audio_data) == buffer \o audio_data

\* the split of process_buffer with the first half second of the chunk
\* left in the buffer
TakeChunkKeepingOverlap(buffer) ==
    [ chunk |-> SubSeq(buffer, 1, ChunkBytes),
      rest |-> SubSeq(buffer, ChunkBytes - BytesPerFrame + 1, Len(buffer)) ]

\* audio_buffer[:chunk_bytes] and audio_buffer[chunk_bytes:]
TakeChunk(buffer) ==
    [ chunk |-> SubSeq(buffer, 1, ChunkBytes),
      rest |-> SubSeq(buffer, ChunkBytes + 1, Len(buffer)) ]

Handed(buffer, chunks, r) ==
    [ audio_buffer |-> buffer, chunks |-> chunks, r |-> r ]

ProcessBufferChunk(tr, d, cl, t, voice, inp) ==
    Handed(t.rest, << [ by |-> "process_buffer", bytes |-> t.chunk ] >>,
           TranscribeChunkBytes(tr, d, cl, voice, t.chunk, inp))

\* process_buffer()
ProcessBuffer(tr, d, cl, buffer, voice, inp) ==
    IF Len(buffer) < ChunkBytes
    THEN Handed(buffer, <<>>, ChunkOutcome(tr, d, cl, <<>>, <<>>, <<>>, "none"))
    ELSE ProcessBufferChunk(tr, d, cl, TakeChunk(buffer), voice, inp)

\* process_remaining(): nothing below one second of audio
ProcessRemaining(tr, d, cl, buffer, voice, inp) ==
    IF Len(buffer) < BytesPerFrame * SamplesPerSecond
    THEN Handed(buffer, <<>>, ChunkOutcome(tr, d, cl, <<>>, <<>>, <<>>, "none"))
    ELSE Handed(<<>>, << [ by |-> "process_remaining", bytes |-> buffer ] >>,
                TranscribeChunkBytes(tr, d, cl, voice, buffer, inp))

\* output_segment for every segment returned
SegmentLines(segments) ==
    [ i \in 1..Len(segments) |->
        [ type |-> "segment", start |-> segments[i].start,
          end |-> segments[i].end, speaker |-> segments[i].speaker ] ]

StatusLine(message, value) ==
    [ type |-> "status", message |-> message, value |-> value ]

\* the wall clock of a session: the whole session is shorter than
\* STATUS_INTERVAL ("fast"), or data arrives so slowly that the interval
\* has passed at every read ("slow")
Paces == {"fast", "slow"}

\* one voice speaks in the sessions of the loop
LoopVoice == "A"

\* what a chunk of the loop brings: rejected by the voice gate, or one or
\* two segments from the recogniser
LoopInputs ==
    { Input(FALSE, <<>>, None, "ok", {}, {}),
      Input(TRUE, OneSegment, None, "ok", {}, {}),
      Input(TRUE, TwoSegments, None, "ok", {}, {}) }

NewLoop ==
    [ pc |-> "reading", is_running |-> TRUE,
      total_bytes_received |-> 0, total_chunks_received |-> 0,
      segments_produced |-> 0,
      ended_by |-> "none", drained |-> FALSE, chunks |-> <<>>,
      pace |-> "fast",
      run |-> 1, script |-> <<>>, tail_inp |-> NoChunk.inp,
      first_output |-> <<>> ]

\* the state when read_stdin_audio enters its loop
LoopInit ==
    /\ engine = "loop"
    /\ pool = PoolTwo
    /\ clustering = NewClustering(STREAM_SIMILARITY_THRESHOLD, MaxSpeakers)
    /\ last = NoCall
    /\ transcriber = NewTranscriber
    /\ diarizer = NewDiarizer
    /\ returned = <<>>
    /\ output = << StatusLine("Waiting for audio data on stdin...", 0) >>
    /\ call = NoChunk
    /\ audio_buffer = <<>>
    /\ loop \in { [NewLoop EXCEPT !.pace = pace] : pace \in Paces }

\* the sizes the next read can return: in a replay, the size it returned in
\* the first run
ReadSizes ==
    IF loop.run = 1 THEN {ReadSize - 1, ReadSize}
    ELSE IF loop.total_chunks_received < Len(loop.script)
    THEN {loop.script[loop.total_chunks_received + 1].n}
    ELSE {}

\* what the chunk cut by this read brings: in a replay, what it brought in
\* the first run
ReadInputs(chunk_ready) ==
    IF loop.run = 1
    THEN IF chunk_ready THEN LoopInputs ELSE {NoChunk.inp}
    ELSE {loop.script[loop.total_chunks_received + 1].inp}

\* whether STATUS_INTERVAL seconds of wall-clock time have passed since the
\* last periodic status record
StatusDue == loop.pace = "slow"

ChunkCall(b, inp) ==
    IF b.chunks = <<>> THEN call
    ELSE [ op |-> "transcribe_chunk", chunks |-> call.chunks + 1,
           path |-> b.r.path, voice |-> LoopVoice, inp |-> inp,
           segments |-> b.r.segments,
           speaker_segments |-> b.r.speaker_segments,
           diarization_succeeded |-> b.r.diarization_succeeded ]

\* the status records of one iteration before process_buffer
IterationStatus(n, buffer, status_due) ==
    (IF loop.total_chunks_received = 0
     THEN << StatusLine("First audio chunk received", n) >> ELSE <<>>)
    \o (IF status_due
        THEN << [ type |-> "status", message |-> "Audio stats",
                  value |-> loop.total_bytes_received + n,
                  segments_produced |-> loop.segments_produced,
                  buffered_seconds |-> Len(buffer),
                  total_chunks |-> loop.total_chunks_received + 1 ] >>
        ELSE <<>>)
    \o (IF 10 * Len(buffer) >= 9 * ChunkBytes
        THEN << StatusLine("Processing buffered audio...", Len(buffer)) >>
        ELSE <<>>)

\* one iteration of the loop with data read: add_audio, the status
\* records, process_buffer, and output_segment for what it returned
ReadBlock ==
    /\ engine = "loop"
    /\ loop.pc = "reading"
    /\ loop.is_running
    /\ loop.total_chunks_received < MaxReads
    /\ \E n \in ReadSizes, status_due \in {StatusDue} :
         \E buffer \in {ExtendBuffer(audio_buffer,
                           [i \in 1..n |-> loop.total_bytes_received + i])} :
           \E inp \in ReadInputs(Len(buffer) >= ChunkBytes) :
             \E b \in {ProcessBuffer(transcriber, diarizer, clustering,
                                     buffer, LoopVoice, inp)} :
               /\ audio_buffer' = b.audio_buffer
               /\ transcriber' = b.r.transcriber
               /\ diarizer' = b.r.diarizer
               /\ clustering' = b.r.clustering
               /\ returned' = b.r.returned
               /\ output' = output \o IterationStatus(n, buffer, status_due)
                                   \o b.r.lines \o SegmentLines(b.r.returned)
               /\ call' = ChunkCall(b, inp)
               /\ loop' = [loop EXCEPT
                    !.total_bytes_received = @ + n,
                    !.total_chunks_received = @ + 1,
                    !.segments_produced = @ + Len(b.r.returned),
                    !.chunks = @ \o b.chunks,
                    !.script = IF loop.run = 1
                               THEN Append(@, [n |-> n, inp |-> inp])
                               ELSE @]
    /\ UNCHANGED <<engine, pool, last>>

\* the read returns no data: end of input
EndOfInput ==
    /\ engine = "loop"
    /\ loop.pc = "reading"
    /\ loop.is_running
    /\ loop.run = 2 => loop.total_chunks_received = Len(loop.script)
    /\ output' = Append(output,
          [ type |-> "status", message |-> "End of audio stream",
            value |-> loop.total_bytes_received,
            total_chunks |-> loop.total_chunks_received ])
    /\ loop' = [loop EXCEPT !.pc = "draining", !.ended_by = "eof"]
    /\ UNCHANGED <<engine, pool, clustering, last, transcriber, diarizer,
                   returned, call, audio_buffer>>

\* the running flag is cleared and the loop condition fails
StopRunning ==
    /\ engine = "loop"
    /\ loop.pc = "reading"
    /\ loop.is_running
    /\ loop.run = 1
    /\ loop' = [loop EXCEPT !.is_running = FALSE, !.pc = "draining",
                            !.ended_by = "stop"]
    /\ UNCHANGED <<engine, pool, clustering, last, transcriber, diarizer,
                   returned, output, call, audio_buffer>>

\* after the loop: process_remaining, output_segment for what it returned,
\* and the complete record
Drain ==
    /\ engine = "loop"
    /\ loop.pc = "draining"
    /\ \E inp \in (IF loop.run = 2 THEN {loop.tail_inp}
                   ELSE IF Len(audio_buffer) >= BytesPerFrame * SamplesPerSecond
                   THEN LoopInputs ELSE {NoChunk.inp}) :
         \E b \in {ProcessRemaining(transcriber, diarizer, clustering,
                                    audio_buffer, LoopVoice, inp)} :
            /\ audio_buffer' = b.audio_buffer
            /\ transcriber' = b.r.transcriber
            /\ diarizer' = b.r.diarizer
            /\ clustering' = b.r.clustering
            /\ returned' = b.r.returned
            /\ output' = output
                 \o << StatusLine("Processing remaining audio...", 0) >>
                 \o b.r.lines \o SegmentLines(b.r.returned)
                 \o << [ type |-> "complete",
                         total_seconds |-> b.r.transcriber.total_processed_samples,
                         total_bytes_received |-> loop.total_bytes_received,
                         total_chunks |-> loop.total_chunks_received,
                         segments_produced |->
                             loop.segments_produced + Len(b.r.returned) ] >>
            /\ call' = ChunkCall(b, inp)
            /\ loop' = [loop EXCEPT
                 !.pc = "done", !.drained = TRUE,
                 !.segments_produced = @ + Len(b.r.returned),
                 !.chunks = @ \o b.chunks,
                 !.tail_inp = inp]
    /\ UNCHANGED <<engine, pool, last>>

\* KeyboardInterrupt (SIGINT) inside the try block
Interrupt ==
    /\ engine = "loop"
    /\ loop.pc \in {"reading", "draining"}
    /\ loop.run = 1
    /\ output' = Append(output, StatusLine("Interrupted by user", 0))
    /\ loop' = [loop EXCEPT !.pc = "done", !.ended_by = "sigint"]
    /\ UNCHANGED <<engine, pool, clustering, last, transcriber, diarizer,
                   returned, call, audio_buffer>>

\* any other exception inside the try block (the read fails)
ReadFails ==
    /\ engine = "loop"
    /\ loop.pc = "reading"
    /\ loop.run = 1
    /\ output' = Append(output, [ type |-> "error", code |-> "READ_ERROR" ])
    /\ loop' = [loop EXCEPT !.pc = "done", !.ended_by = "error"]
    /\ UNCHANGED <<engine, pool, clustering, last, transcriber, diarizer,
                   returned, call, audio_buffer>>

\* the program is started again on the same byte stream, cut into the same
\* blocks, with the same recogniser and extractor
Replay ==
    /\ engine = "loop"
    /\ loop.pc = "done"
    /\ loop.run = 1
    /\ loop.ended_by = "eof"
    /\ clustering' = NewClustering(STREAM_SIMILARITY_THRESHOLD, MaxSpeakers)
    /\ transcriber' = NewTranscriber
    /\ diarizer' = NewDiarizer
    /\ returned' = <<>>
    /\ output' = << StatusLine("Waiting for audio data on stdin...", 0) >>
    /\ call' = NoChunk
    /\ audio_buffer' = <<>>
    /\ \E pace \in Paces :
         loop' = [NewLoop EXCEPT !.run = 2, !.pace = pace,
                                 !.script = loop.script,
                                 !.tail_inp = loop.tail_inp,
                                 !.first_output = output]
    /\ UNCHANGED <<engine, pool, last>>

LoopNext ==
    \/ ReadBlock
    \/ EndOfInput
    \/ StopRunning
    \/ Drain
    \/ Interrupt
    \/ ReadFails
    \/ Replay

SpecLoop == LoopInit /\ [][LoopNext]_vars

(***************************************************************************)
(* JSON output: output_json, NumpyTorchJSONEncoder, to_json_serializable.   *)
(* A value is [kind, value, items]: kind is its Python type, value the      *)
(* float it holds ("nan", "inf", "-inf" or a finite number) and items its   *)
(* elements.  An emitted line is the sequence of its JSON tokens.           *)
(***************************************************************************)
MaxItems == 2

JsonValue(kind, value, items) == [ kind |-> kind, value |-> value, items |-> items ]

PyNone == JsonValue("None", "", <<>>)

PyFloat(x) == JsonValue("float", x, <<>>)

PyStr(s) == JsonValue("str", s, <<>>)

PyList(items) == JsonValue("list", "", items)

TypeError == JsonValue("TypeError", "", <<>>)

FloatValues == {"nan", "inf", "-inf", "0.5"}

\* sys.float_info.max and its negation
MAX_FLOAT == "1.7976931348623157e+308"

MIN_FLOAT == "-1.7976931348623157e+308"

\* isinstance(obj, float): numpy.float64 is a subclass of float,
\* numpy.float32 is not
IsFloat(obj) == obj.kind \in {"float", "np.float64"}

\* isinstance(obj, np.floating)
IsNpFloating(obj) == obj.kind \in {"np.float32", "np.float64"}

HandleSpecialFloat(obj) ==
    IF obj.value = "nan" THEN PyNone
    ELSE IF obj.value = "inf" THEN PyFloat(MAX_FLOAT)
    ELSE IF obj.value = "-inf" THEN PyFloat(MIN_FLOAT)
    ELSE obj

\* ndarray.tolist(): the elements as Python floats
ToList(obj) == PyList([ i \in 1..Len(obj.items) |-> PyFloat(obj.items[i].value) ])

RECURSIVE PreprocessFloats(_)
PreprocessFloats(obj) ==
    IF IsFloat(obj) THEN HandleSpecialFloat(obj)
    ELSE IF obj.kind = "dict"
    THEN JsonValue("dict", "", [ i \in 1..Len(obj.items) |-> PreprocessFloats(obj.items[i]) ])
    ELSE IF obj.kind \in {"list", "tuple"}
    THEN PyList([ i \in 1..Len(obj.items) |-> PreprocessFloats(obj.items[i]) ])
    ELSE obj

\* the encoder's hook for objects json cannot serialize; json.JSONEncoder's
\* own hook raises TypeError
Default(cls, obj) ==
    IF cls # "NumpyTorchJSONEncoder" THEN TypeError
    ELSE IF IsNpFloating(obj) THEN HandleSpecialFloat(PyFloat(obj.value))
    ELSE IF obj.kind = "ndarray" THEN ToList(obj)
    ELSE TypeError

\* float.__repr__ with allow_nan left at its default
FloatRepr(x) ==
    IF x = "nan" THEN "NaN"
    ELSE IF x = "inf" THEN "Infinity"
    ELSE IF x = "-inf" THEN "-Infinity"
    ELSE x

RECURSIVE IterEncode(_, _), EncodeItems(_, _, _, _)
\* json.JSONEncoder.iterencode: native values are written by json itself,
\* anything else goes through default() and its result is written in turn
IterEncode(cls, obj) ==
    IF obj.kind = "None" THEN << "null" >>
    ELSE IF obj.kind = "str" THEN << "\"str\"" >>
    ELSE IF IsFloat(obj) THEN << FloatRepr(obj.value) >>
    ELSE IF obj.kind \in {"list", "tuple"}
    THEN << "[" >> \o EncodeItems(cls, obj.items, 1, FALSE) \o << "]" >>
    ELSE IF obj.kind = "dict"
    THEN << "{" >> \o EncodeItems(cls, obj.items, 1, TRUE) \o << "}" >>
    ELSE LET o == Default(cls, obj)
         IN  IF o = TypeError THEN << "TypeError" >> ELSE IterEncode(cls, o)

EncodeItems(cls, items, i, keyed) ==
    IF i > Len(items) THEN << >>
    ELSE (IF i > 1 THEN << "," >> ELSE << >>)
         \o (IF keyed THEN << "\"key\"", ":" >> ELSE << >>)
         \o IterEncode(cls, items[i])
         \o EncodeItems(cls, items, i + 1, keyed)

Raised(tokens) == \E i \in 1..Len(tokens) : tokens[i] = "TypeError"

\* NumpyTorchJSONEncoder.encode
Encode(obj) == IterEncode("NumpyTorchJSONEncoder", PreprocessFloats(obj))

RECURSIVE ToJsonSerializable(_)
ToJsonSerializable(obj) ==
    IF obj.kind = "None" THEN PyNone
    ELSE IF IsNpFloating(obj) THEN HandleSpecialFloat(PyFloat(obj.value))
    ELSE IF obj.kind = "ndarray"
    THEN PyList([ i \in 1..Len(obj.items) |-> ToJsonSerializable(ToList(obj).items[i]) ])
    ELSE IF obj.kind = "float" THEN HandleSpecialFloat(obj)
    ELSE IF obj.kind = "str" THEN obj
    ELSE IF obj.kind = "dict"
    THEN JsonValue("dict", "", [ i \in 1..Len(obj.items) |-> ToJsonSerializable(obj.items[i]) ])
    ELSE IF obj.kind \in {"list", "tuple"}
    THEN PyList([ i \in 1..Len(obj.items) |-> ToJsonSerializable(obj.items[i]) ])
    ELSE PyStr("object")

SerializationErrorLine ==
    << "{", "\"key\"", ":", "\"serialization_error\"", ",", "\"key\"", ":", "\"str\"", ",", "\"key\"", ":", "\"str\"", "}" >>

\* the line output_json prints for obj
OutputJsonLine(obj) ==
    LET first == Encode(obj)
    IN  IF ~Raised(first) THEN first
        ELSE LET recovered == IterEncode("JSONEncoder", ToJsonSerializable(obj))
             IN  IF ~Raised(recovered) THEN recovered ELSE SerializationErrorLine

SeqsUpTo(S, n) == UNION { [1..m -> S] : m \in 1..n }

JsonScalars ==
    { JsonValue(k, x, <<>>) : k \in {"float", "np.float32", "np.float64"}, x \in FloatValues }
        \cup { JsonValue("object", "", <<>>), PyStr("text") }

JsonArrays ==
    { JsonValue("ndarray", "", s) :
          s \in SeqsUpTo({ JsonValue("np.float64", x, <<>>) : x \in FloatValues }, MaxItems) }

\* what a list, tuple or dict of a record holds
JsonElements ==
    { v \in JsonScalars : v.kind \in {"float", "np.float32", "object"} }
        \cup { a \in JsonArrays : Len(a.items) = 1 }

JsonContainers ==
    { JsonValue(k, "", s) : k \in {"list", "tuple", "dict"}, s \in SeqsUpTo(JsonElements, MaxItems) }

\* the records handed to output_json: a dict around any of the values
JsonRecords ==
    { JsonValue("dict", "", << v >>) : v \in JsonScalars \cup JsonArrays \cup JsonContainers }

JsonInit ==
    /\ engine = "json"
    /\ pool = {}
    /\ clustering = NewClustering(STREAM_SIMILARITY_THRESHOLD, MaxSpeakers)
    /\ last = NoCall
    /\ transcriber = NewTranscriber
    /\ diarizer = NewDiarizer
    /\ returned = <<>>
    /\ output = <<>>
    /\ call \in { [ op |-> "none", obj |-> obj ] : obj \in JsonRecords }
    /\ audio_buffer = <<>>
    /\ loop = NoLoop

OutputJson ==
    /\ engine = "json"
    /\ call.op = "none"
    /\ output' = Append(output, OutputJsonLine(call.obj))
    /\ call' = [call EXCEPT !.op = "output_json"]
    /\ UNCHANGED <<engine, pool, clustering, last, transcriber, diarizer,
                   returned, audio_buffer, loop>>

JsonNext == OutputJson

SpecJson == JsonInit /\ [][JsonNext]_vars

(***************************************************************************)
(* The duplicate filters of the transcriber over a long session: chunks    *)
(* as in SpecStream, a recogniser that may report the same time range      *)
(* twice, and a silence long enough for the 300 s history window to pass.  *)
(* `call.emitted` keeps every transcript segment transcribe_chunk returned.*)
(***************************************************************************)
\* chunks in a row rejected by the voice gate that outlast the window
SilentChunks == MAX_SPEAKER_HISTORY_HOPS \div ChunkHops + 1

RepeatedSegment == << [start |-> 0, end |-> 3], [start |-> 0, end |-> 3] >>

DedupInputs ==
    { Input(FALSE, <<>>, None, "ok", {}, {}) }
    \cup { Input(TRUE, asr, None, "ok", {}, {}) :
             asr \in {OneSegment, TwoSegments, RepeatedSegment} }
    \cup { Input(TRUE, TwoSegments, 1, "ok", {}, {}),
           Input(TRUE, OneSegment, None, "window", {}, {}) }

NoDedupCall ==
    [ op |-> "init", chunks |-> 0, path |-> "none", voice |-> "none",
      inp |-> Input(FALSE, <<>>, None, "ok", {}, {}),
      emitted |-> <<>>, silent |-> FALSE ]

\* n chunks in a row that the voice gate rejects
RECURSIVE AfterSilentChunks(_, _, _, _)
AfterSilentChunks(tr, d, cl, n) ==
    IF n = 0 THEN tr
    ELSE IF n = 1
    THEN TranscribeChunkResult(tr, d, cl, "noise", ChunkHops,
             Input(FALSE, <<>>, None, "ok", {}, {})).transcriber
    ELSE The({ AfterSilentChunks(half, d, cl, n - n \div 2) :
               half \in {AfterSilentChunks(tr, d, cl, n \div 2)} })

DedupInit ==
    /\ engine = "dedup"
    /\ pool = PoolTwo
    /\ clustering = NewClustering(STREAM_SIMILARITY_THRESHOLD, MaxSpeakers)
    /\ last = NoCall
    /\ transcriber = NewTranscriber
    /\ diarizer = NewDiarizer
    /\ returned = <<>>
    /\ output = <<>>
    /\ call = NoDedupCall
    /\ audio_buffer = <<>>
    /\ loop = NoLoop

DedupChunk ==
    /\ engine = "dedup"
    /\ call.chunks < MaxChunks
    /\ \E voice \in {"A", "B"}, inp \in DedupInputs :
            \E r \in {TranscribeChunkResult(transcriber, diarizer, clustering,
                                            voice, ChunkHops, inp)} :
               /\ transcriber' = r.transcriber
               /\ diarizer' = r.diarizer
               /\ clustering' = r.clustering
               /\ returned' = r.returned
               /\ output' = output \o r.lines
               /\ call' = [call EXCEPT !.op = "transcribe_chunk",
                                       !.chunks = @ + 1,
                                       !.path = r.path,
                                       !.voice = voice,
                                       !.inp = inp,
                                       !.emitted = @ \o r.returned]
    /\ UNCHANGED <<engine, pool, last>>
    /\ UNCHANGED loopVars

SilentStretch ==
    /\ engine = "dedup"
    /\ ~call.silent
    /\ transcriber' = AfterSilentChunks(transcriber, diarizer, clustering,
                                        SilentChunks)
    /\ returned' = <<>>
    /\ call' = [call EXCEPT !.op = "silence", !.path = "vad_rejected",
                            !.voice = "noise",
                            !.inp = Input(FALSE, <<>>, None, "ok", {}, {}),
                            !.silent = TRUE]
    /\ UNCHANGED <<engine, pool, clustering, last, diarizer, output>>
    /\ UNCHANGED loopVars

DedupNext == DedupChunk \/ SilentStretch

SpecDedup == DedupInit /\ [][DedupNext]_vars

(***************************************************************************)
(* LiveDiarizer on its own: add_audio calls of any length and voice, and   *)
(* process_remaining for what is left in the buffer.                       *)
(***************************************************************************)
MaxFeeds == 3             \* add_audio calls of a session
MaxFeedHops == 3          \* hops of audio in one add_audio call

PartialHopMs == 200       \* audio left over at the end of a stream, in ms

\* the length of a buffer in ms: its hops are whole except a last one cut
\* short by the end of the stream, which carries its length
RECURSIVE BufferMs(_)
BufferMs(buffer) ==
    IF buffer = <<>> THEN 0
    ELSE (IF "ms" \in DOMAIN buffer[1] THEN buffer[1].ms ELSE MsPerHop)
         + BufferMs(Tail(buffer))

NoFeed == [ op |-> "init", feeds |-> 0, fed |-> 0, flushes |-> 0, voice |-> "none", ended |-> FALSE, segments |-> <<>> ]

\* process_remaining with every time counted from the start of the buffer
DiarizerProcessRemainingFromBufferStart(d, cl) ==
    LET embedding == ExtractEmbedding(d.audio_buffer)
        r == ProcessSegment(cl, embedding, 0)
        segment == [ speaker |-> SpeakerName(r.speaker),
                     start |-> 0,
                     end |-> Len(d.audio_buffer),
                     confidence |-> r.confidence,
                     t |-> d.audio_buffer[1].t ]
    IN IF BufferMs(d.audio_buffer) < 500
       THEN [ clustering |-> cl, segments |-> <<>>, lines |-> <<>> ]
       ELSE IF embedding = NoEmbedding
       THEN [ clustering |-> cl, segments |-> <<>>, lines |-> <<>> ]
       ELSE [ clustering |-> r.clustering, segments |-> << segment >>,
              lines |-> SpeakerChangeLines(r) \o <<SpeakerSegmentLine(segment)>> ]

\* process_remaining(): the whole buffer is one segment that starts where
\* the last window began to slide; the buffer is left as it is.  The end
\* time counts a hop cut short as a whole hop.
DiarizerProcessRemaining(d, cl) ==
    LET embedding == ExtractEmbedding(d.audio_buffer)
        r == ProcessSegment(cl, embedding, d.processed_samples)
        segment == [ speaker |-> SpeakerName(r.speaker),
                     start |-> d.processed_samples,
                     end |-> d.processed_samples + Len(d.audio_buffer),
                     confidence |-> r.confidence,
                     t |-> d.audio_buffer[1].t ]
    IN IF BufferMs(d.audio_buffer) < 500
       THEN [ clustering |-> cl, segments |-> <<>>, lines |-> <<>> ]
       ELSE IF embedding = NoEmbedding
       THEN [ clustering |-> cl, segments |-> <<>>, lines |-> <<>> ]
       ELSE [ clustering |-> r.clustering, segments |-> << segment >>,
              lines |-> SpeakerChangeLines(r) \o <<SpeakerSegmentLine(segment)>> ]

DiarizeInit ==
    /\ engine = "diarize"
    /\ pool = PoolTwo
    /\ clustering = NewClustering(LIVE_SIMILARITY_THRESHOLD, MaxSpeakers)
    /\ last = NoCall
    /\ transcriber = NewTranscriber
    /\ diarizer = NewDiarizer
    /\ returned = <<>>
    /\ output = <<>>
    /\ call = NoFeed
    /\ audio_buffer = <<>>
    /\ loop = NoLoop

DiarizerAddAudio ==
    /\ engine = "diarize"
    /\ call.feeds < MaxFeeds
    /\ ~call.ended
    /\ \E n \in 1..MaxFeedHops, voice \in Voices :
         \E r \in {AddAudio(diarizer, clustering,
                            ChunkAudio(voice, call.fed, n), "ok")} :
            /\ diarizer' = r.diarizer
            /\ clustering' = r.clustering
            /\ output' = output \o r.lines
            /\ call' = [call EXCEPT !.op = "add_audio", !.feeds = @ + 1,
                                    !.fed = @ + n, !.voice = voice,
                                    !.segments = r.segments]
    /\ UNCHANGED <<engine, pool, last, transcriber, returned>>
    /\ UNCHANGED loopVars

\* the last add_audio call of a stream: n whole hops and what is left of a
\* hop.  The windows are those of the whole hops; the rest stays behind them
\* in the buffer.
DiarizerAddLastAudio ==
    /\ engine = "diarize"
    /\ call.feeds < MaxFeeds
    /\ ~call.ended
    /\ \E n \in 0..MaxFeedHops, voice \in Voices :
         \E r \in {AddAudio(diarizer, clustering,
                            ChunkAudio(voice, call.fed, n), "ok")} :
            /\ diarizer' = [r.diarizer EXCEPT
                              !.audio_buffer =
                                  Append(@, [ voice |-> voice, t |-> call.fed + n,
                                              ms |-> PartialHopMs ])]
            /\ clustering' = r.clustering
            /\ output' = output \o r.lines
            /\ call' = [call EXCEPT !.op = "add_audio", !.feeds = @ + 1,
                                    !.fed = @ + n, !.voice = voice,
                                    !.ended = TRUE,
                                    !.segments = r.segments]
    /\ UNCHANGED <<engine, pool, last, transcriber, returned>>
    /\ UNCHANGED loopVars

DiarizerFlush ==
    /\ engine = "diarize"
    /\ call.flushes = 0
    /\ \E r \in {DiarizerProcessRemaining(diarizer, clustering)} :
            /\ clustering' = r.clustering
            /\ output' = output \o r.lines
            /\ call' = [call EXCEPT !.op = "process_remaining",
                                    !.flushes = @ + 1,
                                    !.segments = r.segments]
    /\ UNCHANGED <<engine, pool, last, transcriber, diarizer, returned>>
    /\ UNCHANGED loopVars

DiarizeNext == DiarizerAddAudio \/ DiarizerAddLastAudio \/ DiarizerFlush

SpecDiarize == DiarizeInit /\ [][DiarizeNext]_vars

(***************************************************************************)
(* A transcriber constructed with an initial time offset: the audio that   *)
(* was buffered before start-up is already that long.                      *)
(***************************************************************************)
InitialOffsetHops == 70   \* --initial-time-offset of a session (35 s)

NoOffsetCall ==
    [ op |-> "init", chunks |-> 0, path |-> "none", voice |-> "none",
      inp |-> Input(FALSE, <<>>, None, "ok", {}, {}), before |-> 0 ]

OffsetInit ==
    /\ engine = "offset"
    /\ pool = PoolTwo
    /\ clustering = NewClustering(STREAM_SIMILARITY_THRESHOLD, MaxSpeakers)
    /\ last = NoCall
    /\ transcriber \in { [NewTranscriber EXCEPT !.initial_time_offset = o] :
                           o \in {0, InitialOffsetHops} }
    /\ diarizer = NewDiarizer
    /\ returned = <<>>
    /\ output = <<>>
    /\ call = NoOffsetCall
    /\ audio_buffer = <<>>
    /\ loop = NoLoop

OffsetChunk ==
    /\ engine = "offset"
    /\ call.chunks < MaxChunks
    /\ \E voice \in Voices, inp \in ChunkInputs :
            \E r \in {TranscribeChunkResult(transcriber, diarizer, clustering,
                                            voice, ChunkHops, inp)} :
               /\ transcriber' = r.transcriber
               /\ diarizer' = r.diarizer
               /\ clustering' = r.clustering
               /\ returned' = r.returned
               /\ output' = output \o r.lines
               /\ call' = [ op |-> "transcribe_chunk",
                            chunks |-> call.chunks + 1,
                            path |-> r.path, voice |-> voice, inp |-> inp,
                            before |-> transcriber.total_processed_samples ]
    /\ UNCHANGED <<engine, pool, last>>
    /\ UNCHANGED loopVars

OffsetNext == OffsetChunk

SpecOffset == OffsetInit /\ [][OffsetNext]_vars

(***************************************************************************)
(* Properties of the identity engines.                                     *)
(***************************************************************************)
ProfileIds(cl) == DOMAIN cl.speaker_centroids

BaseThresholds(cl) ==
    /\ cl.effective_similarity_threshold = cl.similarity_threshold
    /\ cl.effective_definite_new_threshold = DEFINITE_NEW_SPEAKER_THRESHOLD
    /\ cl.effective_new_speaker_threshold = NEW_SPEAKER_THRESHOLD
    /\ cl.effective_minimum_match_threshold = MINIMUM_MATCH_THRESHOLD

BoostedThresholds(cl) ==
    /\ cl.effective_similarity_threshold =
           cl.similarity_threshold + PROCESSED_AUDIO_THRESHOLD_BOOST
    /\ cl.effective_definite_new_threshold =
           DEFINITE_NEW_SPEAKER_THRESHOLD + PROCESSED_AUDIO_THRESHOLD_BOOST
    /\ cl.effective_new_speaker_threshold =
           NEW_SPEAKER_THRESHOLD + PROCESSED_AUDIO_THRESHOLD_BOOST
    /\ cl.effective_minimum_match_threshold =
           MINIMUM_MATCH_THRESHOLD + PROCESSED_AUDIO_THRESHOLD_BOOST

SameThresholds(a, b) ==
    /\ a.effective_similarity_threshold = b.effective_similarity_threshold
    /\ a.effective_definite_new_threshold = b.effective_definite_new_threshold
    /\ a.effective_new_speaker_threshold = b.effective_new_speaker_threshold
    /\ a.effective_minimum_match_threshold = b.effective_minimum_match_threshold

AllSamplesIn(cl, lo, hi) ==
    \A i \in 1..Len(cl.calibration_similarities) :
        cl.calibration_similarities[i] \in lo..hi

\* C2: a step that processes a segment keeps every profile id, lets the
\* profile under an id change only by absorbing one embedding, gives a new
\* profile an id greater than every id in use, and leaves the id counter above
\* every id in use.
C2_ProfileIdentityPermanent ==
    [][ last'.op # "reset" =>
          /\ ProfileIds(clustering) \subseteq ProfileIds(clustering')
          /\ \A k \in ProfileIds(clustering) :
                \/ clustering'.speaker_embedding_history[k] =
                       clustering.speaker_embedding_history[k]
                \/ \E e \in pool :
                       clustering'.speaker_embedding_history[k] =
                           LastK(Append(clustering.speaker_embedding_history[k], e),
                                 MaxCentroidHistory)
          /\ \A k \in ProfileIds(clustering') \ ProfileIds(clustering) :
                /\ k >= clustering.speaker_counter
                /\ \A j \in ProfileIds(clustering) : k > j
          /\ \A k \in ProfileIds(clustering') : k < clustering'.speaker_counter
      ]_vars

C2_Witness ==
    /\ engine = "live"
    /\ last.branch \in NewSpeakerBranches
    /\ last.speaker = 1
    /\ clustering.speaker_counts[0] >= 2

\* C3: the number of profiles never exceeds max_speakers.
C3_ProfilesBounded ==
    Cardinality(ProfileIds(clustering)) <= clustering.max_speakers

C3_Witness ==
    /\ last.branch = "max_speakers"
    /\ Cardinality(ProfileIds(clustering)) = clustering.max_speakers

\* C6: a segment whose best similarity is at least 0.85 is handled by the
\* re-identification branch and assigned to the best-matching profile.
C6_ReidentificationBypasses ==
    (last.op = "process_segment" /\ last.similarity >= REIDENTIFICATION_THRESHOLD)
        => (last.branch = "reident" /\ last.speaker = last.closest)

\* C7: at most CALIBRATION_SEGMENTS samples are ever collected, and once
\* is_calibrated is set no step changes is_calibrated, is_processed_audio or
\* an effective threshold; every effective threshold is its base value or
\* its base value plus the boost.
C7_CalibrationOnce ==
    [][ /\ Len(clustering'.calibration_similarities) <= CALIBRATION_SEGMENTS
        /\ clustering'.is_calibrated <=>
               Len(clustering'.calibration_similarities) = CALIBRATION_SEGMENTS
        /\ BaseThresholds(clustering') \/ BoostedThresholds(clustering')
        /\ clustering.is_calibrated =>
              /\ clustering'.is_calibrated
              /\ clustering'.is_processed_audio = clustering.is_processed_audio
              /\ SameThresholds(clustering', clustering)
      ]_vars

C7_Witness ==
    /\ clustering.is_calibrated
    /\ clustering.is_processed_audio
    /\ BoostedThresholds(clustering)
    /\ last.op \in {"process_segment", "find_or_create_speaker"}
    /\ last.calls > CALIBRATION_SEGMENTS + 1

\* C8: after reset() the calibration state is that of a new engine.
C8_ResetReenablesCalibration ==
    last.op = "reset" =>
        /\ clustering.calibration_similarities = <<>>
        /\ ~clustering.is_calibrated
        /\ ~clustering.is_processed_audio
        /\ BaseThresholds(clustering)

\* C9: a live session with one profile whose calibration samples all lie in
\* the same-speaker range 0.80..0.95 ends calibration as live audio with the
\* base thresholds.
C9_SingleSpeakerStaysLive ==
    ( /\ engine = "live"
      /\ clustering.is_calibrated
      /\ Cardinality(ProfileIds(clustering)) = 1
      /\ AllSamplesIn(clustering, 80, 95) )
        => (~clustering.is_processed_audio /\ BaseThresholds(clustering))

\* C10: after speaker A alone has filled the calibration window, a segment
\* of speaker B with best similarity 0.60..0.65 to A's profile finds the
\* thresholds boosted and becomes a second profile.
C10_ProcessedAudioSeparates ==
    [][ ( /\ engine = "live"
          /\ clustering.is_calibrated
          /\ ProfileIds(clustering) = {0}
          /\ AllSamplesIn(clustering, 80, 100)
          /\ last'.op = "process_segment"
          /\ last'.similarity \in 60..65 )
        => ( /\ clustering.is_processed_audio
             /\ BoostedThresholds(clustering)
             /\ ProfileIds(clustering') = {0, 1} )
      ]_vars

\* C1: whenever _process_diarization ran (add_audio raising, a speaker
\* segment that cannot be normalised, assign_speaker_to_transcript raising),
\* the call returned and every transcript segment passed in is still in the
\* list, in place, with a speaker.
C1_DiarizationNeverDropsSegments ==
    call.path = "diarized" =>
        /\ Len(returned) = Len(call.segments)
        /\ \A i \in 1..Len(returned) :
             /\ returned[i].start = call.segments[i].start
             /\ returned[i].end = call.segments[i].end
             /\ returned[i].speaker # NoSpeaker

C1_Witness ==
    /\ call.path = "diarized"
    /\ Len(returned) = 2
    /\ call.diarization_succeeded
    /\ call.speaker_segments # <<>>
    /\ call.inp.malformed # {}
    /\ call.inp.assign_raises = {1}
    /\ transcriber.recent_speaker_segments # <<>>
    /\ transcriber.diarization_last_failure_reason = "speaker_assignment"
    /\ returned[1].speaker_fallback
    /\ ~returned[2].speaker_fallback

\* C4: as long as no diarization failure occurred, every speaker segment of
\* the alignment buffer is labelled with the time the transcriber's clock
\* gives to the audio it was computed from, whatever chunks were transcribed,
\* skipped by the voice gate or left without a transcript segment.
C4_ClocksAgree ==
    transcriber.diarization_total_failures = 0 =>
        \A i \in 1..Len(transcriber.recent_speaker_segments) :
            transcriber.recent_speaker_segments[i].start
                = transcriber.recent_speaker_segments[i].t

\* C5: every segment transcribe_chunk returns carries the id of a profile
\* of the diarizer, or a synthetic speaker_unknown id with speaker_fallback.
C5_EverySegmentCarriesSpeaker ==
    \A i \in 1..Len(returned) :
        \/ /\ returned[i].speaker[1] = "Speaker"
           /\ returned[i].speaker[2] \in ProfileIds(clustering)
        \/ /\ returned[i].speaker[1] = "speaker_unknown"
           /\ returned[i].speaker_fallback

\* the records of one type among the output lines
LinesOfType(lines, type) == SelectSeq(lines, LAMBDA l : l.type = type)

\* the health warnings emitted after the last recovery
RECURSIVE OutstandingWarnings(_)
OutstandingWarnings(lines) ==
    IF lines = <<>> THEN 0
    ELSE IF lines[Len(lines)].type = "diarization_health_recovery" THEN 0
    ELSE OutstandingWarnings(SubSeq(lines, 1, Len(lines) - 1))
         + (IF lines[Len(lines)].type = "diarization_health_warning"
            THEN 1 ELSE 0)

\* C11: at most one health warning is outstanding at any time, and once
\* speaker assignment has failed for three transcript segments in a row
\* exactly one is outstanding.
C11_WarningOnThirdFailure ==
    /\ OutstandingWarnings(output) <= 1
    /\ call.assign_failure_run >= DIARIZATION_FAILURE_THRESHOLD
           => OutstandingWarnings(output) = 1

\* C12: a step emits a recovery only while a warning is outstanding and
\* after more than 5 successes in a row since the last failure; it emits at
\* most one and clears the outstanding flag, so there are never more
\* recoveries than warnings.
C12_RecoveryAfterSuccessRun ==
    [][ /\ Len(LinesOfType(output', "diarization_health_recovery"))
             <= Len(LinesOfType(output', "diarization_health_warning"))
        /\ Len(LinesOfType(output', "diarization_health_recovery"))
             # Len(LinesOfType(output, "diarization_health_recovery"))
           => /\ Len(LinesOfType(output', "diarization_health_recovery"))
                   = Len(LinesOfType(output, "diarization_health_recovery")) + 1
              /\ transcriber.diarization_health_warning_emitted
              /\ ~transcriber'.diarization_health_warning_emitted
              /\ call'.success_run > RECOVERY_MIN_SEGMENTS
      ]_vars

\* the bytes of the chunks handed to transcribe_chunk, in order
RECURSIVE ChunkBytesInOrder(_)
ChunkBytesInOrder(chunks) ==
    IF chunks = <<>> THEN <<>>
    ELSE Head(chunks).bytes \o ChunkBytesInOrder(Tail(chunks))

\* the whole frames of the chunks handed to transcribe_chunk
RECURSIVE WholeFrames(_)
WholeFrames(chunks) ==
    IF chunks = <<>> THEN 0
    ELSE Len(Head(chunks).bytes) \div BytesPerFrame + WholeFrames(Tail(chunks))

\* C13: when the loop has ended by end of input, by SIGINT or by the
\* running flag, the buffer was drained and the output ends with the one
\* complete record of the session.
C13_DrainThenComplete ==
    (loop.pc = "done" /\ loop.ended_by \in {"eof", "stop", "sigint"})
        => /\ loop.drained
           /\ Len(LinesOfType(output, "complete")) = 1
           /\ output[Len(output)].type = "complete"

\* C14: every chunk cut by process_buffer is chunk_bytes long, and the
\* chunks in order followed by the buffer are the bytes received so far.
C14_ChunksExactAndDisjoint ==
    loop.pc # "none" =>
        /\ \A i \in 1..Len(loop.chunks) :
              loop.chunks[i].by = "process_buffer"
                  => Len(loop.chunks[i].bytes) = ChunkBytes
        /\ ChunkBytesInOrder(loop.chunks) \o audio_buffer
               = [i \in 1..loop.total_bytes_received |-> i]

C14_Witness ==
    /\ loop.pc = "done"
    /\ loop.drained
    /\ Len(loop.chunks) = 2
    /\ loop.chunks[2].by = "process_buffer"
    /\ audio_buffer # <<>>
    /\ loop.total_bytes_received = 2 * ChunkBytes + Len(audio_buffer)

\* C15: when a block whose length is no multiple of the frame size was
\* handed to transcribe_chunk, no error record was written and the whole
\* frames of every block were counted as processed.
C15_UnalignedRoundedDown ==
    (/\ loop.pc # "none"
     /\ loop.chunks # <<>>
     /\ Len(loop.chunks[Len(loop.chunks)].bytes) % BytesPerFrame # 0)
        => /\ call.path # "error"
           /\ LinesOfType(output, "error") = <<>>
           /\ transcriber.total_processed_samples = WholeFrames(loop.chunks)

\* C19: the replay of a session that ended with the end of its input has
\* written the records of the first run.
C19_ReplayIdentical ==
    (loop.pc = "done" /\ loop.run = 2) => output = loop.first_output

\* the values of one kind anywhere in a value
RECURSIVE Holds(_, _)
Holds(obj, kinds) ==
    \/ obj.kind \in kinds
    \/ \E i \in 1..Len(obj.items) : Holds(obj.items[i], kinds)

\* C16: no emitted JSON line holds a NaN, Infinity or -Infinity token, and
\* the line of a record of dicts, lists, tuples, Python floats, numpy
\* scalars and numpy arrays is the record with each NaN written as null and
\* each infinity as the largest float of its sign.
C16_NoNaNOrInfinityToken ==
    \A l \in 1..Len(output) :
        /\ \A i \in 1..Len(output[l]) :
               output[l][i] \notin {"NaN", "Infinity", "-Infinity"}
        /\ ~Holds(call.obj, {"object"})
               => output[l] = IterEncode("JSONEncoder", ToJsonSerializable(call.obj))

\* no two segments of the sequence have the same key
DistinctKeys(segments) ==
    \A i, j \in 1..Len(segments) :
        i < j => SegmentKey(segments[i].start, segments[i].end)
                     # SegmentKey(segments[j].start, segments[j].end)

\* C17: no two transcript segments returned in a session share a segment
\* key, and no two entries of the alignment buffer share one; a segment
\* whose key was seen before is skipped.
C17_SegmentKeyAtMostOnce ==
    engine = "dedup" =>
        /\ DistinctKeys(call.emitted)
        /\ DistinctKeys(transcriber.recent_speaker_segments)
        /\ \A i \in 1..Len(call.emitted) :
               SegmentKey(call.emitted[i].start, call.emitted[i].end)
                   \in transcriber.processed_segment_times

C17_Witness ==
    /\ engine = "dedup"
    /\ call.op = "transcribe_chunk"
    /\ call.path = "diarized"
    /\ call.inp.asr = RepeatedSegment
    /\ call.chunks = 2
    /\ Len(returned) = 1
    /\ Len(call.emitted) >= 2
    /\ Len(transcriber.recent_speaker_segments) >= 2

\* C18: after a chunk that went through diarization, once more than 300 s
\* of audio were processed, every key of the transcript-segment filter and
\* of the speaker-segment filter ends inside the last 300 s.
C18_KeySetsBoundedByWindow ==
    ( /\ engine = "dedup"
      /\ call.op = "transcribe_chunk"
      /\ call.path = "diarized"
      /\ transcriber.total_processed_samples > MAX_SPEAKER_HISTORY_HOPS )
        => \A key \in transcriber.processed_segment_times
                          \cup transcriber.processed_speaker_segments :
               key[2] > (transcriber.total_processed_samples
                            - MAX_SPEAKER_HISTORY_HOPS) * CentisPerHop

\* C20: the start times of the speaker_segment records emitted by add_audio
\* and process_remaining never decrease, whether or not the embedding of a
\* window could be extracted.
C20_SpeakerSegmentStartsMonotone ==
    engine = "diarize" =>
        \A i, j \in 1..Len(LinesOfType(output, "speaker_segment")) :
            i < j => LinesOfType(output, "speaker_segment")[i].start
                         <= LinesOfType(output, "speaker_segment")[j].start

C20_Witness ==
    /\ engine = "diarize"
    /\ call.op = "process_remaining"
    /\ call.segments # <<>>
    /\ Len(LinesOfType(output, "speaker_segment")) >= 3
    /\ diarizer.processed_samples
           > Len(LinesOfType(output, "speaker_segment")) - 1
    /\ output[Len(output)].start = diarizer.processed_samples
    /\ diarizer.processed_samples >= 3

\* the index of the last speaker_segment record before line i, 0 if none
PreviousSegmentLine(lines, i) ==
    IF \E j \in 1..(i - 1) : lines[j].type = "speaker_segment"
    THEN CHOOSE j \in 1..(i - 1) :
             /\ lines[j].type = "speaker_segment"
             /\ \A k \in (j + 1)..(i - 1) : lines[k].type # "speaker_segment"
    ELSE 0

\* C21: a speaker_change record is written exactly when a segment gets an
\* id other than the current speaker's, it stands immediately before the
\* speaker_segment record of that segment and carries its start time.
C21_SpeakerChangeBeforeFirstSegment ==
    engine = "diarize" =>
        \A i \in 1..Len(output) :
            /\ output[i].type = "speaker_change" =>
                  /\ i < Len(output)
                  /\ output[i + 1].type = "speaker_segment"
                  /\ output[i + 1].start = output[i].time
                  /\ output[i + 1].speaker = output[i].to_speaker
                  /\ output[i].from_speaker # output[i].to_speaker
                  /\ PreviousSegmentLine(output, i) # 0
                  /\ output[PreviousSegmentLine(output, i)].speaker
                         = output[i].from_speaker
            /\ ( /\ output[i].type = "speaker_segment"
                 /\ PreviousSegmentLine(output, i) # 0
                 /\ output[PreviousSegmentLine(output, i)].speaker
                        # output[i].speaker )
                   => output[i - 1].type = "speaker_change"
            /\ ( /\ output[i].type = "speaker_segment"
                 /\ i > 1
                 /\ output[i - 1].type = "speaker_change" )
                   => output[PreviousSegmentLine(output, i)].speaker
                          # output[i].speaker

C21_Witness ==
    /\ engine = "diarize"
    /\ Len(LinesOfType(output, "speaker_change")) >= 2
    /\ output[Len(output)].type = "speaker_segment"
    /\ output[Len(output) - 1].type = "speaker_change"
    /\ output[Len(output) - 1].time = output[Len(output)].start
    /\ output[Len(output) - 1].time > 0

\* C22: every transcript segment that alignment gave a fallback speaker is
\* written as a segment record that carries speaker_fallback = true, the
\* speaker id and speaker_confidence.
C22_FallbackFlagInSegmentRecord ==
    [][ (engine = "loop" /\ loop'.segments_produced > loop.segments_produced)
          => \A i \in 1..Len(returned') :
                returned'[i].speaker_fallback =>
                    \E k \in (Len(output) + 1)..Len(output') :
                        /\ output'[k].type = "segment"
                        /\ output'[k].start = returned'[i].start
                        /\ output'[k].speaker = returned'[i].speaker
                        /\ "speaker_fallback" \in DOMAIN output'[k]
                        /\ "speaker_confidence" \in DOMAIN output'[k]
                        /\ output'[k].speaker_fallback
      ]_vars

\* C23: a transcript segment whose speaker assignment raised gets the
\* synthetic id speaker_unknown_<start in ms> with confidence 0 and the
\* speaker_fallback flag, and every such exception adds one to the total
\* and to the consecutive failure counter.
C23_AssignmentExceptionGivesSyntheticId ==
    [][ ( /\ engine = "stream"
          /\ call'.op = "transcribe_chunk"
          /\ call'.chunks = call.chunks + 1
          /\ call'.path = "diarized"
          /\ call'.diarization_succeeded
          /\ call'.inp.malformed = {}
          /\ transcriber'.recent_speaker_segments # <<>> )
        => /\ \A i \in call'.inp.assign_raises :
                /\ returned'[i].speaker
                       = GenerateFallbackSpeakerId(returned'[i].start)
                /\ returned'[i].speaker_confidence = 0
                /\ returned'[i].speaker_fallback
           /\ transcriber'.diarization_total_failures
                  = transcriber.diarization_total_failures
                        + Cardinality(call'.inp.assign_raises)
           /\ Len(returned') \in call'.inp.assign_raises
                  => transcriber'.diarization_consecutive_failures >= 1
      ]_vars

\* C24: a transcript segment at local time x of a chunk is returned with
\* start = initial_time_offset + the audio processed before the chunk + x.
C24_TimestampsIncludeInitialOffset ==
    ( /\ engine = "offset"
      /\ call.op = "transcribe_chunk"
      /\ call.path = "diarized" )
        => \A i \in 1..Len(returned) :
               \E j \in 1..Len(call.inp.asr) :
                   /\ returned[i].start = transcriber.initial_time_offset
                                              + call.before + call.inp.asr[j].start
                   /\ returned[i].end = transcriber.initial_time_offset
                                            + call.before + call.inp.asr[j].end

\* C25: in an add_audio call every window slides the buffer by one hop; a
\* window whose embedding cannot be extracted gives no segment and leaves
\* the processed time offset where it was, and the windows after it are
\* still processed.
C25_FailedWindowSlidesWithoutTime ==
    [][ ( /\ engine = "diarize"
          /\ call'.op = "add_audio"
          /\ call'.feeds = call.feeds + 1
          /\ ~call'.ended )
          => LET fed == call'.fed - call.fed
                 combined == diarizer.audio_buffer
                                 \o ChunkAudio(call'.voice, call.fed, fed)
                 turns == Max(0, Len(combined) - SegmentHops + 1)
                 failed == {k \in 1..turns : ExtractEmbedding(SubSeq(combined, k, k + SegmentHops - 1)) = NoEmbedding}
             IN /\ Len(diarizer'.audio_buffer) = Len(combined) - turns
                /\ Len(call'.segments) = turns - Cardinality(failed)
                /\ diarizer'.processed_samples
                       = diarizer.processed_samples + turns - Cardinality(failed)
      ]_vars

\* C26: at the end of a stream a residual buffer shorter than 0.5 s whose
\* embedding can be extracted is not dropped by process_remaining: it gives
\* a speaker segment.
C26_ShortResidualPaddedNotDropped ==
    ( /\ engine = "diarize"
      /\ call.op = "process_remaining"
      /\ diarizer.audio_buffer # <<>>
      /\ BufferMs(diarizer.audio_buffer) < 500
      /\ ExtractEmbedding(diarizer.audio_buffer) # NoEmbedding )
        => /\ call.segments # <<>>
           /\ output # <<>>
           /\ output[Len(output)].type = "speaker_segment"
           /\ output[Len(output)].start = diarizer.processed_samples


\* C27: with max_speakers profiles in place, a segment below the match
\* threshold is forced onto the best-matching profile, that profile's
\* centroid is updated with the segment, and the confidence returned is
\* max(s*, 0.5), so never below 0.5.
C27_ForcedAssignmentConfidenceFloor ==
    [][ ( /\ engine \in {"live", "core"}
          /\ last'.op \in {"process_segment", "find_or_create_speaker"}
          /\ last'.branch = "max_speakers" )
            => /\ Cardinality(DOMAIN clustering.speaker_centroids) = MaxSpeakers
               /\ last'.speaker = last'.closest
               /\ DOMAIN clustering'.speaker_centroids
                      = DOMAIN clustering.speaker_centroids
               /\ Len(HistoryOf(clustering', last'.speaker)) >= 1
               /\ last'.confidence = Max(last'.similarity, 50)
               /\ last'.confidence >= 50
      ]_vars


\* C28: every profile's embedding history holds between 1 and
\* max_centroid_history entries and its count is at least the history
\* length; an update of a full history drops the oldest embedding and
\* appends the new one.
C28_HistoryBoundedOldestDropped ==
    [][ ( /\ engine \in {"live", "core"}
          /\ last'.op \in {"process_segment", "find_or_create_speaker"} )
            => \A id \in DOMAIN clustering'.speaker_centroids :
                 LET new == HistoryOf(clustering', id)
                     old == HistoryOf(clustering, id)
                 IN /\ Len(new) >= 1
                    /\ Len(new) <= MaxCentroidHistory
                    /\ id \in DOMAIN clustering'.speaker_counts
                    /\ clustering'.speaker_counts[id] >= Len(new)
                    /\ ( /\ Len(old) = MaxCentroidHistory
                         /\ last'.speaker = id )
                         => /\ Len(new) = MaxCentroidHistory
                            /\ SubSeq(new, 1, MaxCentroidHistory - 1) = Tail(old)
      ]_vars

C28_Witness ==
    /\ engine \in {"live", "core"}
    /\ last.op \in {"process_segment", "find_or_create_speaker"}
    /\ last.calls > MaxCentroidHistory
    /\ Cardinality(DOMAIN clustering.speaker_centroids) = 1
    /\ \A id \in DOMAIN clustering.speaker_centroids :
         /\ last.speaker = id
         /\ Len(HistoryOf(clustering, id)) = MaxCentroidHistory


\* C29: after each call of transcribe_chunk, total_processed_samples has
\* grown by exactly the number of samples of the chunk, whichever path the
\* call took (voice-gate rejection, transcription, or an exception caught
\* inside the call).
C29_ClockCountsEveryChunk ==
    ( /\ engine = "offset"
      /\ call.op = "transcribe_chunk" )
        => transcriber.total_processed_samples = call.before + ChunkHops


\* the cold-start branch of process_segment is taken in no reachable state
ColdStartBranchNeverTaken ==
    engine \in {"live", "core"} => last.branch # "cold_start_match"

====
